---- MODULE Spec2Model ----
(***************************************************************************)
(* goose-api: an HTTP gateway in front of one shared conversational agent. *)
(* The model follows crates/goose-api/src: the startup sequence            *)
(* (routes.rs run_server, config.rs), the API-key gate in its two          *)
(* compositions (handlers.rs with_api_key behind build_routes, main.rs     *)
(* with_api_key + handle_rejection), and the request handlers              *)
(* (handlers.rs) running concurrently against the agent mutex and the      *)
(* transcript store; the handlers under the ContextProvider of tests.rs;   *)
(* the session-activity registry (api_sessions.rs); and the computation of *)
(* the bind address.                                                       *)
(***************************************************************************)
EXTENDS Integers, Sequences, FiniteSets, TLC

(***************************************************************************)
(* Bounds of the model.                                                    *)
(***************************************************************************)
\* number of client requests in one run
NReq == 3
\* number of requests that can be in flight at the same time
NConn == 2
\* session identifiers a client can name: one more Start than this cannot
\* be followed by a request for its session within NReq requests
MaxSid == NReq - 1
\* number of entries of the extensions table of the configuration file
MaxExt == 2
\* number of configuration keys a provider declares
MaxKeys == 2

Requests == 1..NConn
Sids == 1..MaxSid

\* lock holders: a request number, the startup task, or nobody
BootTask == 0
Free == -1

\* the prompt of the n-th request of a run: clients send distinct prompts
Prompt(n) == "p" \o ToString(n)
ExtNames == {"e1", "e2"}

\* an unset environment variable / configuration key, an absent header
Unset == "<unset>"
NoHeader == "<absent>"
HeaderValues == {"secret", "wrong"}

\* the values GOOSE_API_KEY and the configuration key api_key take
ApiKeyEnv == {"secret"}
ApiKeyFile == {Unset, "filekey"}

(***************************************************************************)
(* Messages.  A message has a role and content blocks; a block is a text   *)
(* or the "context length exceeded" marker.                                *)
(***************************************************************************)
TextBlock(t) == [type |-> "text", text |-> t]
CleBlock == [type |-> "context_length_exceeded", text |-> "too long"]

\* Message::user().with_text(prompt)
UserMsg(p) == [role |-> "user", content |-> <<TextBlock(p)>>]

AssistantMsg(blocks) == [role |-> "assistant", content |-> blocks]

\* messages the agent's reply stream can carry
AgentMsgs ==
    { AssistantMsg(<<TextBlock("a"), TextBlock("b")>>),
      AssistantMsg(<<CleBlock>>) }

\* an item of the reply stream: Ok(message) or Err
OkItem(m) == [ok |-> TRUE, msg |-> m]
ErrItem == [ok |-> FALSE, msg |-> AssistantMsg(<<>>)]
LaterItem == OkItem(AssistantMsg(<<TextBlock("later")>>))

\* reply streams: empty, one item, or one item followed by a further one
Streams ==
    {<<>>}
    \cup { <<OkItem(m)>> : m \in AgentMsgs } \cup {<<ErrItem>>}
    \cup { <<OkItem(m), LaterItem>> : m \in AgentMsgs } \cup {<<ErrItem, LaterItem>>}

\* ContextProvider::complete under a system prompt that contains
\* "summarizing": Message::user().with_text("summary")
SummaryMsg == UserMsg("summary")

\* the marker message by which a reply stream carries the provider's
\* "context length exceeded" failure
ContextLengthExceededMsg == AssistantMsg(<<CleBlock>>)

\* reply streams of the agent while every ordinary completion fails with
\* "context length exceeded": the failure is surfaced as the marker message,
\* or remediated by the summarizing completion, whose message the stream
\* then carries
ContextStreams ==
    { <<OkItem(ContextLengthExceededMsg)>>, <<OkItem(SummaryMsg)>> }

\* Message::as_concat_text: the text blocks joined by a newline
RECURSIVE JoinTexts(_)
JoinTexts(blocks) ==
    IF blocks = <<>> THEN ""
    ELSE IF Len(blocks) = 1 THEN Head(blocks).text
    ELSE Head(blocks).text \o "\n" \o JoinTexts(Tail(blocks))

as_concat_text(m) ==
    JoinTexts(SelectSeq(m.content, LAMBDA b : b.type = "text"))

\* `if let Ok(Some(response)) = stream.try_next().await`
FirstIsMessage(s) == s # <<>> /\ Head(s).ok

(***************************************************************************)
(* Responses.                                                              *)
(***************************************************************************)
NoResp == [type |-> "none", code |-> 0]

ApiResponse(code, message, status) ==
    [type |-> "ApiResponse", code |-> code, message |-> message, status |-> status]

StartSessionResponse(code, message, status, session_id) ==
    [type |-> "StartSessionResponse", code |-> code, message |-> message,
     status |-> status, session_id |-> session_id]

ExtensionResponse(error, message) ==
    [type |-> "ExtensionResponse", code |-> 200, error |-> error, message |-> message]

RejectionReply(code) == [type |-> "rejection", code |-> code]

(***************************************************************************)
(* The API-key gate.  composition "routes" is build_routes with            *)
(* handlers::with_api_key and no recover filter; composition "main" is the *)
(* entry point with its own with_api_key followed by handle_rejection;     *)
(* composition "tests" is tests.rs, which calls the handlers directly.     *)
(***************************************************************************)
Compositions == {"routes", "main", "tests"}

\* a gate that lets every request through that carries the header
with_api_key_AnyValue(comp, header, key) ==
    IF header = NoHeader THEN "MissingHeader" ELSE "pass"

\* the rejection cause of the gate, or "pass"
with_api_key(comp, header, key) ==
    IF header = NoHeader THEN "MissingHeader"
    ELSE IF header = key THEN "pass"
    ELSE IF comp = "main" THEN "Unauthorized"
    ELSE "NotFound"

\* main.rs handle_rejection
handle_rejection(cause) ==
    IF cause = "Unauthorized" THEN 401
    ELSE IF cause = "NotFound" THEN 404
    ELSE 500

\* the status a rejection is answered with in a composition; build_routes
\* installs no recover filter, so the server's default reply applies
RejectionStatus(comp, cause) ==
    IF comp = "main" THEN handle_rejection(cause)
    ELSE IF cause = "NotFound" THEN 404
    ELSE 400

\* what stands between a request and its handler: the gate of the routing
\* table, or nothing when a test calls the handler function itself
Route(comp, header, key) ==
    IF comp = "tests" THEN "pass" ELSE with_api_key(comp, header, key)

\* a resolution in which the configuration file comes first
ResolveLayered_FileFirst(env, cfg, default) ==
    IF cfg # Unset THEN cfg
    ELSE IF env # Unset THEN env
    ELSE default

\* first of: environment variable, configuration key, literal default
ResolveLayered(env, cfg, default) ==
    IF env # Unset THEN env
    ELSE IF cfg # Unset THEN cfg
    ELSE default

\* the agent's provider: none before update_provider, the provider that
\* create(&provider_name, ..) built, or the ContextProvider of tests.rs
NoProvider == "none"
Providers == {"configured", "ContextProvider"}

VARIABLES
    composition,  \* which routing composition the process runs
    bootPc,       \* position of the startup sequence
    apiKey,       \* the shared secret resolved at startup
    extPending,   \* entries of the extensions table not yet processed
    keysPending,  \* configuration keys of the provider not yet visited
    bootError,    \* the last error startup returned or logged, "" when none
    lock,         \* holder of the AGENT mutex
    provider,     \* the provider installed in the agent, NoProvider before
    extensions,   \* names registered with the agent
    store,        \* transcript store: session identifier -> message list
    nextSid,      \* the next session identifier Start session mints
    received,     \* number of requests received so far
    pc,           \* position of each request
    req,          \* each request as received
    session,      \* the session identifier a handler works on
    messages,     \* each handler's local message list
    stream,       \* each handler's reply stream as returned by the agent
    resp,         \* each request's response
    sessions,     \* the SESSIONS registry: identifier -> activity record
    now,          \* the system clock, in seconds since the epoch
    overflowChecks, \* TRUE when the build checks integer overflow
    lastCall,     \* the last call on the registry and what it returned
    host,         \* the resolved host value, a sequence of characters
    addr,         \* the bind address computed from host, <<>> before
    port,         \* the resolved port value, a sequence of characters
    portNum,      \* <<p>> once the port p is computed from port, <<>> before
    environment,  \* the process environment: variable name -> value or Unset
    api_config,   \* the configuration file: key -> value or Unset
    config,       \* the configuration store Config::global(): name -> value
    ended         \* history: the identifiers End session answered "success" for

bootVars == <<composition, bootPc, apiKey, extPending, keysPending, bootError>>
agentVars == <<lock, provider, extensions>>
storeVars == <<store, nextSid>>
reqVars == <<received, pc, req, session, messages, stream, resp>>
cacheVars == <<sessions, now, overflowChecks, lastCall>>
bindVars == <<host, addr, port, portNum>>
settingVars == <<environment, api_config, config>>
historyVars == <<ended>>
auxVars == <<cacheVars, bindVars, settingVars, historyVars>>
serverVars == <<bootVars, agentVars, storeVars, reqVars>>
vars == <<serverVars, auxVars>>

NoReq == [kind |-> "none", header |-> NoHeader, session_id |-> 0, prompt |-> "", ext |-> ""]

\* what stays of a request once it is answered: the handler's frame, with
\* the request body and the locals, is dropped
Finished(request) == [NoReq EXCEPT !.kind = request.kind, !.header = request.header]

\* the extensions table of the configuration file, in the order the loop
\* visits it: the keys of a table are distinct (the i-th is named "e<i>"),
\* and each entry is enabled, disabled, or does not deserialize
EntryStates == {"enabled", "disabled", "malformed"}
EntryName(i) == "e" \o ToString(i)

ExtTables ==
    UNION { { [i \in 1..n |-> [name |-> EntryName(i), state |-> st[i]]] :
                st \in [1..n -> EntryStates] } : n \in 0..MaxExt }

\* no call on the registry was made yet
NoCall == [op |-> "none"]

\* the environment variables and configuration keys startup resolves
EnvNames == {"GOOSE_API_PROVIDER", "GOOSE_API_MODEL", "GOOSE_API_KEY"}
FileKeys == {"provider", "model", "api_key"}

\* the environment and configuration file of a server run: the shared
\* secret is given in the environment, everything else is left to defaults
ServerEnvs ==
    { [n \in EnvNames |-> IF n = "GOOSE_API_KEY" THEN k ELSE Unset] : k \in ApiKeyEnv }
ServerFiles == { [k \in FileKeys |-> Unset] }

\* the configuration store with nothing in it
EmptyStore == [n \in {} |-> ""]

\* the settings of the parts of the crate that resolve none
NoSettings ==
    /\ environment = [n \in EnvNames |-> Unset]
    /\ api_config = [k \in FileKeys |-> Unset]
    /\ config = EmptyStore

\* the registry is empty and nothing was parsed: the state of the parts of
\* the crate a run of the server does not use
AuxInit ==
    /\ sessions = [k \in {} |-> 0]
    /\ now = 0
    /\ overflowChecks = FALSE
    /\ lastCall = NoCall
    /\ host = <<>>
    /\ addr = <<>>
    /\ port = <<>>
    /\ portNum = <<>>
    /\ environment \in ServerEnvs
    /\ api_config \in ServerFiles
    /\ config = EmptyStore
    /\ ended = {}

\* the server's part of the state after construction
ServerInit(comp) ==
    /\ composition = comp
    /\ bootPc = "load"
    /\ apiKey = Unset
    /\ extPending = <<>>
    /\ keysPending = <<>>
    /\ bootError = ""
    /\ lock = Free
    /\ provider = NoProvider
    /\ extensions = {}
    /\ store = [t \in {} |-> <<>>]
    /\ nextSid = 1
    /\ received = 0
    /\ pc = [r \in Requests |-> "idle"]
    /\ req = [r \in Requests |-> NoReq]
    /\ session = [r \in Requests |-> 0]
    /\ messages = [r \in Requests |-> <<>>]
    /\ stream = [r \in Requests |-> <<>>]
    /\ resp = [r \in Requests |-> NoResp]

\* the state after construction, before run_server (or main) runs
InitOf(comp) == AuxInit /\ ServerInit(comp)

\* the server assembled by routes.rs: run_server with build_routes
Init == InitOf("routes")

\* the entry point of main.rs, with its own gate and handle_rejection
InitMain == InitOf("main")

\* tests.rs setup() up to its first handler call: the ContextProvider is
\* installed into AGENT and no server runs; handlers are called directly
InitContext ==
    /\ AuxInit
    /\ composition = "tests"
    /\ bootPc = "serving"
    /\ apiKey = "key"
    /\ extPending = <<>>
    /\ keysPending = <<>>
    /\ bootError = ""
    /\ lock = Free
    /\ provider = "ContextProvider"
    /\ extensions = {}
    /\ store = [t \in {} |-> <<>>]
    /\ nextSid = 1
    /\ received = 0
    /\ pc = [r \in Requests |-> "idle"]
    /\ req = [r \in Requests |-> NoReq]
    /\ session = [r \in Requests |-> 0]
    /\ messages = [r \in Requests |-> <<>>]
    /\ stream = [r \in Requests |-> <<>>]
    /\ resp = [r \in Requests |-> NoResp]

\* a mutex that lets a second task in
LockFree_NoExclusion == TRUE

\* AGENT.lock().await returns only when nobody holds the mutex
LockFree == lock = Free

(***************************************************************************)
(* Startup: routes.rs run_server and config.rs.                            *)
(***************************************************************************)
\* the configuration keys a provider declares, in the order of its metadata:
\* the i-th is named "K<i>", is required or not, and its environment
\* variable is present or not
KeyName(i) == "K" \o ToString(i)

KeyLists ==
    UNION { { [i \in 1..n |-> [name |-> KeyName(i), required |-> rq[i], present |-> pr[i]]] :
                rq \in [1..n -> BOOLEAN], pr \in [1..n -> BOOLEAN] } : n \in 0..MaxKeys }

\* the errors startup steps return or log
ConfigError == "configuration could not be loaded"
StoreError == "configuration store could not be written"
RequiredKeyError(name) == "Required key " \o name \o " not provided"
CreateError == "provider could not be created"
UpdateError == "provider could not be installed"
DeserializeError(name) == "Failed to deserialize extension config for " \o name
AddError(name) == "Failed to add extension " \o name

\* Config::set_param: the store with name bound to value
set_param(st, name, value) ==
    [n \in DOMAIN st \cup {name} |-> IF n = name THEN value ELSE st[n]]

\* load_configuration()? and the resolution of the shared secret
BootLoadConfig ==
    /\ bootPc = "load"
    /\ \/ /\ bootPc' = "exited"
          /\ bootError' = ConfigError
          /\ UNCHANGED <<apiKey, extPending>>
       \/ \E table \in ExtTables :
             /\ apiKey' = ResolveLayered(environment["GOOSE_API_KEY"],
                                         api_config["api_key"], "default_api_key")
             /\ extPending' = table
             /\ bootPc' = "provider"
             /\ bootError' = bootError
    /\ UNCHANGED <<auxVars, composition, keysPending, agentVars, storeVars, reqVars>>

\* initialize_provider_config up to the loop over the provider's keys: its
\* own load_configuration()?, the two set_param(..)? calls, and the lookup
\* of the provider's metadata (no metadata: no key to visit)
BootInitProvider ==
    /\ bootPc = "provider"
    /\ LET provider_name == ResolveLayered(environment["GOOSE_API_PROVIDER"],
                                           api_config["provider"], "openai")
           model_name == ResolveLayered(environment["GOOSE_API_MODEL"],
                                        api_config["model"], "gpt-4o")
           withProvider == set_param(config, "GOOSE_PROVIDER", provider_name)
       IN \/ /\ bootPc' = "exited"
             /\ bootError' = ConfigError
             /\ UNCHANGED <<keysPending, config>>
          \/ /\ bootPc' = "exited"
             /\ bootError' = StoreError
             /\ config' \in {config, withProvider}
             /\ keysPending' = keysPending
          \/ /\ bootPc' = "keys"
             /\ config' = set_param(withProvider, "GOOSE_MODEL", model_name)
             /\ \E keys \in KeyLists : keysPending' = keys
             /\ bootError' = bootError
    /\ UNCHANGED <<cacheVars, bindVars, historyVars, environment, api_config, composition,
                   apiKey, extPending, agentVars, storeVars, reqVars>>

\* a key without environment variable that never ends initialization
MissingKeyFails_Never(key) == FALSE

\* `if key.required { return Err(..) }` for a key whose environment
\* variable is not set
MissingKeyFails(key) == key.required

\* the value std::env::var(&key.name) returns for a key that is set
KeyValue(name) == "value of " \o name

\* an initialization that undoes its writes when a required key is missing
BootKeyNext_Atomic ==
    /\ bootPc = "keys"
    /\ keysPending # <<>>
    /\ LET key == Head(keysPending) IN
       IF key.present
       THEN \/ /\ keysPending' = Tail(keysPending)
               /\ config' = set_param(config, key.name, KeyValue(key.name))
               /\ UNCHANGED <<bootPc, bootError>>
            \/ /\ bootPc' = "exited"
               /\ bootError' = StoreError
               /\ keysPending' = <<>>
               /\ config' = config
       ELSE IF MissingKeyFails(key)
            THEN /\ bootPc' = "exited"
                 /\ bootError' = RequiredKeyError(key.name)
                 /\ keysPending' = <<>>
                 /\ config' = EmptyStore
            ELSE /\ keysPending' = Tail(keysPending)
                 /\ UNCHANGED <<bootPc, bootError, config>>
    /\ UNCHANGED <<cacheVars, bindVars, historyVars, environment, api_config, composition,
                   apiKey, extPending, agentVars, storeVars, reqVars>>

\* one turn of `for key in &provider_meta.config_keys`: a key that is set
\* in the environment is written to the store (set_secret or set_param,
\* both of Config::global()), a missing required key ends initialization
BootKeyNext ==
    /\ bootPc = "keys"
    /\ keysPending # <<>>
    /\ LET key == Head(keysPending) IN
       IF key.present
       THEN \/ /\ keysPending' = Tail(keysPending)
               /\ config' = set_param(config, key.name, KeyValue(key.name))
               /\ UNCHANGED <<bootPc, bootError>>
            \/ /\ bootPc' = "exited"
               /\ bootError' = StoreError
               /\ keysPending' = <<>>
               /\ config' = config
       ELSE IF MissingKeyFails(key)
            THEN /\ bootPc' = "exited"
                 /\ bootError' = RequiredKeyError(key.name)
                 /\ keysPending' = <<>>
                 /\ config' = config
            ELSE /\ keysPending' = Tail(keysPending)
                 /\ UNCHANGED <<bootPc, bootError, config>>
    /\ UNCHANGED <<cacheVars, bindVars, historyVars, environment, api_config, composition,
                   apiKey, extPending, agentVars, storeVars, reqVars>>

\* create(&provider_name, model_config)?
BootCreateProvider ==
    /\ bootPc = "keys"
    /\ keysPending = <<>>
    /\ \/ /\ bootPc' = "provider_lock"
          /\ bootError' = bootError
       \/ /\ bootPc' = "exited"
          /\ bootError' = CreateError
    /\ UNCHANGED <<auxVars, composition, apiKey, extPending, keysPending, agentVars, storeVars, reqVars>>

BootProviderLock ==
    /\ bootPc = "provider_lock"
    /\ LockFree
    /\ lock' = BootTask
    /\ bootPc' = "provider_update"
    /\ UNCHANGED <<auxVars, composition, apiKey, extPending, keysPending, bootError, provider, extensions, storeVars, reqVars>>

\* agent.update_provider(provider).await?; the guard is dropped on return
BootProviderUpdate ==
    /\ bootPc = "provider_update"
    /\ lock' = Free
    /\ \/ /\ provider' = "configured"
          /\ bootPc' = "extensions"
          /\ bootError' = bootError
       \/ /\ provider' = provider
          /\ bootPc' = "exited"
          /\ bootError' = UpdateError
    /\ UNCHANGED <<auxVars, composition, apiKey, extPending, keysPending, extensions, storeVars, reqVars>>

\* the entries left to visit after a registration attempt, when a failed
\* attempt ends the loop
RestAfterAttempt_StopOnFailure(pending, registered) ==
    IF registered THEN Tail(pending) ELSE <<>>

\* the entries left to visit after agent.add_extension returned: the loop
\* goes on whether the registration succeeded or was only logged as failed
RestAfterAttempt(pending, registered) == Tail(pending)

\* an Err of initialize_extensions that ends run_server
AfterExtensionsError_Fatal == "exited"

\* `if let Err(e) = initialize_extensions(..).await { error!(..) }`: the
\* error is logged and run_server goes on to the self-check
AfterExtensionsError == "selfcheck"

\* a loop that logs an entry that does not deserialize and goes on
BootExtNext_SkipsMalformed ==
    /\ bootPc = "extensions"
    /\ IF extPending = <<>>
       THEN /\ bootPc' = "selfcheck"
            /\ extPending' = extPending
            /\ bootError' = bootError
       ELSE LET entry == Head(extPending) IN
            CASE entry.state = "malformed" ->
                    /\ bootPc' = "extensions"
                    /\ extPending' = Tail(extPending)
                    /\ bootError' = DeserializeError(entry.name)
              [] entry.state = "disabled" ->
                    /\ bootPc' = "extensions"
                    /\ extPending' = Tail(extPending)
                    /\ bootError' = bootError
              [] OTHER ->
                    /\ bootPc' = "ext_lock"
                    /\ extPending' = extPending
                    /\ bootError' = bootError
    /\ UNCHANGED <<auxVars, composition, apiKey, keysPending, agentVars, storeVars, reqVars>>

\* initialize_extensions: the loop over the table up to the next AGENT.lock().
\* An entry that does not deserialize ends the function with Err
BootExtNext ==
    /\ bootPc = "extensions"
    /\ IF extPending = <<>>
       THEN /\ bootPc' = "selfcheck"
            /\ extPending' = extPending
            /\ bootError' = bootError
       ELSE LET entry == Head(extPending) IN
            CASE entry.state = "malformed" ->
                    /\ bootPc' = AfterExtensionsError
                    /\ extPending' = <<>>
                    /\ bootError' = DeserializeError(entry.name)
              [] entry.state = "disabled" ->
                    /\ bootPc' = "extensions"
                    /\ extPending' = Tail(extPending)
                    /\ bootError' = bootError
              [] OTHER ->
                    /\ bootPc' = "ext_lock"
                    /\ extPending' = extPending
                    /\ bootError' = bootError
    /\ UNCHANGED <<auxVars, composition, apiKey, keysPending, agentVars, storeVars, reqVars>>

BootExtLock ==
    /\ bootPc = "ext_lock"
    /\ LockFree
    /\ lock' = BootTask
    /\ bootPc' = "ext_add"
    /\ UNCHANGED <<auxVars, composition, apiKey, extPending, keysPending, bootError, provider, extensions, storeVars, reqVars>>

\* agent.add_extension(extension_config).await: a failure is only logged
BootExtAdd ==
    /\ bootPc = "ext_add"
    /\ lock' = Free
    /\ \E registered \in BOOLEAN :
          /\ extensions' = IF registered
                           THEN extensions \cup {Head(extPending).name}
                           ELSE extensions
          /\ bootError' = IF registered THEN bootError
                          ELSE AddError(Head(extPending).name)
          /\ extPending' = RestAfterAttempt(extPending, registered)
    /\ bootPc' = "extensions"
    /\ UNCHANGED <<auxVars, composition, apiKey, keysPending, provider, storeVars, reqVars>>

\* run_init_tests: takes the agent lock and releases it
BootSelfCheckLock ==
    /\ bootPc = "selfcheck"
    /\ LockFree
    /\ lock' = BootTask
    /\ bootPc' = "selfcheck_locked"
    /\ UNCHANGED <<auxVars, composition, apiKey, extPending, keysPending, bootError, provider, extensions, storeVars, reqVars>>

BootSelfCheckRelease ==
    /\ bootPc = "selfcheck_locked"
    /\ lock' = Free
    /\ bootPc' = "serving"
    /\ UNCHANGED <<auxVars, composition, apiKey, extPending, keysPending, bootError, provider, extensions, storeVars, reqVars>>

Boot ==
    \/ BootLoadConfig
    \/ BootInitProvider
    \/ BootKeyNext
    \/ BootCreateProvider
    \/ BootProviderLock
    \/ BootProviderUpdate
    \/ BootExtNext
    \/ BootExtLock
    \/ BootExtAdd
    \/ BootSelfCheckLock
    \/ BootSelfCheckRelease

\* warp::serve(routes).run(..): connections are accepted from here on,
\* also while startup is still running
Accepting_DuringStartup == bootPc # "exited"

\* warp::serve(routes).run(..) is the last statement of run_server
Accepting == bootPc = "serving"

(***************************************************************************)
(* Requests.  Receive is the routing layer: the route's filters run, the   *)
(* gate last, and only a request that passes enters the handler.           *)
(***************************************************************************)
GatedKinds == {"start", "reply", "end", "add_ext", "remove_ext"}

\* the requests a client can send as the n-th request of a run
ClientRequests(n) ==
    { [kind |-> "start", header |-> h, session_id |-> 0, prompt |-> Prompt(n), ext |-> ""] :
        h \in {NoHeader} \cup HeaderValues }
    \cup
    { [kind |-> "reply", header |-> h, session_id |-> s, prompt |-> Prompt(n), ext |-> ""] :
        h \in {NoHeader} \cup HeaderValues, s \in Sids }
    \cup
    { [kind |-> "end", header |-> h, session_id |-> s, prompt |-> "", ext |-> ""] :
        h \in {NoHeader} \cup HeaderValues, s \in Sids }
    \cup
    { [kind |-> k, header |-> h, session_id |-> 0, prompt |-> "", ext |-> e] :
        k \in {"add_ext", "remove_ext"}, h \in {NoHeader} \cup HeaderValues, e \in ExtNames }

\* where a handler starts: every handler but End session first awaits the
\* agent lock
HandlerEntry(kind) == IF kind = "end" THEN "end" ELSE "lock"

\* session identifiers are minted fresh; a run mints at most MaxSid of them
StartsReceived ==
    (nextSid - 1) + Cardinality({q \in Requests : req[q].kind = "start" /\ pc[q] = "lock"})

\* a connection is available when it carries no request in flight
Available(r) == pc[r] \in {"idle", "done", "rejected"}

Receive(r) ==
    /\ Accepting
    /\ received < NReq
    /\ Available(r)
    /\ \A q \in Requests : q < r => ~Available(q)
    /\ received' = received + 1
    /\ \E request \in ClientRequests(received + 1) :
          /\ request.kind = "start" => StartsReceived < MaxSid
          /\ LET cause == Route(composition, request.header, apiKey) IN
             IF cause = "pass"
             THEN /\ pc' = [pc EXCEPT ![r] = HandlerEntry(request.kind)]
                  /\ req' = [req EXCEPT ![r] = request]
                  /\ session' = [session EXCEPT ![r] = request.session_id]
                  /\ resp' = [resp EXCEPT ![r] = NoResp]
             ELSE /\ pc' = [pc EXCEPT ![r] = "rejected"]
                  /\ req' = [req EXCEPT ![r] = Finished(request)]
                  /\ session' = session
                  /\ resp' = [resp EXCEPT ![r] =
                                RejectionReply(RejectionStatus(composition, cause))]
    /\ UNCHANGED <<auxVars, bootVars, agentVars, storeVars, messages, stream>>

(***************************************************************************)
(* The transcript store (goose::session, keyed by session identifier).     *)
(***************************************************************************)
\* session::read_messages succeeds when the transcript exists
TranscriptExists(s) == s \in DOMAIN store

\* session::persist_messages: the transcript is created or overwritten
WriteTranscript(st, s, msgs) ==
    [t \in DOMAIN st \cup {s} |-> IF t = s THEN msgs ELSE st[t]]

\* a removal that leaves the file in place
RemoveTranscript_Keeps(st, s) == st

\* std::fs::remove_file
RemoveTranscript(st, s) == [t \in DOMAIN st \ {s} |-> st[t]]

AgentErrors == {"provider failure"}

\* the reply streams the agent can return with provider p installed
StreamsOf(p) == IF p = "ContextProvider" THEN ContextStreams ELSE Streams

(***************************************************************************)
(* start_session_handler and reply_session_handler share the positions     *)
(* "lock" (awaiting AGENT.lock()), "agent" (driving agent.reply and the     *)
(* first try_next) and "persist" (awaiting persist_messages).               *)
(***************************************************************************)
StartLock(r) ==
    /\ pc[r] = "lock"
    /\ req[r].kind = "start"
    /\ LockFree
    /\ lock' = r
    /\ messages' = [messages EXCEPT ![r] = <<UserMsg(req[r].prompt)>>]
    /\ session' = [session EXCEPT ![r] = nextSid]
    /\ nextSid' = nextSid + 1
    /\ pc' = [pc EXCEPT ![r] = "agent"]
    /\ UNCHANGED <<auxVars, bootVars, received, provider, extensions, store, req, stream, resp>>

ReplyLock(r) ==
    /\ pc[r] = "lock"
    /\ req[r].kind = "reply"
    /\ LockFree
    /\ lock' = r
    /\ pc' = [pc EXCEPT ![r] = "read"]
    /\ UNCHANGED <<auxVars, bootVars, received, provider, extensions, storeVars, req, session, messages, stream, resp>>

\* the not-found answer with the status of a server error
SessionNotFound_As500 == ApiResponse(500, "Session not found", "error")

SessionNotFound == ApiResponse(404, "Session not found", "error")

\* session::read_messages, the early return, messages.push(user prompt)
\* a read whose early return keeps the guard
ReplyRead_KeepsGuard(r) ==
    /\ pc[r] = "read"
    /\ IF TranscriptExists(session[r])
       THEN /\ messages' = [messages EXCEPT ![r] =
                              Append(store[session[r]], UserMsg(req[r].prompt))]
            /\ pc' = [pc EXCEPT ![r] = "agent"]
            /\ UNCHANGED <<lock, resp, req, session>>
       ELSE /\ resp' = [resp EXCEPT ![r] = SessionNotFound]
            /\ pc' = [pc EXCEPT ![r] = "done"]
            /\ lock' = lock
            /\ req' = [req EXCEPT ![r] = Finished(@)]
            /\ session' = [session EXCEPT ![r] = 0]
            /\ UNCHANGED messages
    /\ UNCHANGED <<auxVars, bootVars, received, provider, extensions, storeVars, stream>>

ReplyRead(r) ==
    /\ pc[r] = "read"
    /\ IF TranscriptExists(session[r])
       THEN /\ messages' = [messages EXCEPT ![r] =
                              Append(store[session[r]], UserMsg(req[r].prompt))]
            /\ pc' = [pc EXCEPT ![r] = "agent"]
            /\ UNCHANGED <<lock, resp, req, session>>
       ELSE /\ resp' = [resp EXCEPT ![r] = SessionNotFound]
            /\ pc' = [pc EXCEPT ![r] = "done"]
            /\ lock' = Free
            /\ req' = [req EXCEPT ![r] = Finished(@)]
            /\ session' = [session EXCEPT ![r] = 0]
            /\ UNCHANGED messages
    /\ UNCHANGED <<auxVars, bootVars, received, provider, extensions, storeVars, stream>>

\* an Err(e) arm that persists the message list before it answers
StoreAfterReplyError_Persists(st, s, msgs) == WriteTranscript(st, s, msgs)

\* the store after the Err(e) arm of `match result`: the arm only logs and
\* answers, it makes no persist_messages call
StoreAfterReplyError(st, s, msgs) == st

\* the Err(e) arm of `match result`
ReplyCallFailed(kind, e) ==
    IF kind = "start"
    THEN ApiResponse(500, "Failed to start session: " \o e, "error")
    ELSE ApiResponse(500, "Failed to reply to session: " \o e, "error")

\* agent.reply(&messages, ..).await and, on Ok(stream), the first
\* stream.try_next().await with messages.push(response)
AgentReply(r) ==
    /\ pc[r] = "agent"
    /\ \/ \E e \in AgentErrors :
             /\ resp' = [resp EXCEPT ![r] = ReplyCallFailed(req[r].kind, e)]
             /\ pc' = [pc EXCEPT ![r] = "done"]
             /\ lock' = Free
             /\ store' = StoreAfterReplyError(store, session[r], messages[r])
             /\ messages' = [messages EXCEPT ![r] = <<>>]
             /\ req' = [req EXCEPT ![r] = Finished(@)]
             /\ session' = [session EXCEPT ![r] = 0]
             /\ UNCHANGED stream
       \/ \E s \in StreamsOf(provider) :
             /\ stream' = [stream EXCEPT ![r] = s]
             /\ messages' = [messages EXCEPT ![r] =
                               IF FirstIsMessage(s) THEN Append(@, Head(s).msg) ELSE @]
             /\ pc' = [pc EXCEPT ![r] = "persist"]
             /\ UNCHANGED <<lock, resp, req, session, store>>
    /\ UNCHANGED <<auxVars, bootVars, received, provider, extensions, nextSid>>

\* an Ok(stream) arm that answers "success" whenever the stream is not
\* empty, also when its first item is an error
StreamResponse_AnyItem(kind, s, sid) ==
    IF kind = "start"
    THEN IF s # <<>>
         THEN StartSessionResponse(200, as_concat_text(Head(s).msg), "success", sid)
         ELSE StartSessionResponse(200, "Session started but no response generated",
                                   "warning", sid)
    ELSE IF s # <<>>
         THEN ApiResponse(200, "Reply: " \o as_concat_text(Head(s).msg), "success")
         ELSE ApiResponse(200, "Reply processed but no response generated", "warning")

\* the response of the Ok(stream) arm
StreamResponse(kind, s, sid) ==
    IF kind = "start"
    THEN IF FirstIsMessage(s)
         THEN StartSessionResponse(200, as_concat_text(Head(s).msg), "success", sid)
         ELSE StartSessionResponse(200, "Session started but no response generated",
                                   "warning", sid)
    ELSE IF FirstIsMessage(s)
         THEN ApiResponse(200, "Reply: " \o as_concat_text(Head(s).msg), "success")
         ELSE ApiResponse(200, "Reply processed but no response generated", "warning")

\* session::persist_messages(..).await, whose failure is only logged, then
\* the response; the lock guard is dropped on return
Persist(r) ==
    /\ pc[r] = "persist"
    /\ \E written \in BOOLEAN :
          store' = IF written THEN WriteTranscript(store, session[r], messages[r])
                   ELSE store
    /\ resp' = [resp EXCEPT ![r] = StreamResponse(req[r].kind, stream[r], session[r])]
    /\ pc' = [pc EXCEPT ![r] = "done"]
    /\ lock' = Free
    /\ messages' = [messages EXCEPT ![r] = <<>>]
    /\ stream' = [stream EXCEPT ![r] = <<>>]
    /\ req' = [req EXCEPT ![r] = Finished(@)]
    /\ session' = [session EXCEPT ![r] = 0]
    /\ UNCHANGED <<auxVars, bootVars, received, provider, extensions, nextSid>>

\* end_session_handler: takes no lock
EndSession(r) ==
    /\ pc[r] = "end"
    /\ IF TranscriptExists(session[r])
       THEN /\ store' = RemoveTranscript(store, session[r])
            /\ resp' = [resp EXCEPT ![r] = ApiResponse(200, "Session ended", "success")]
            /\ ended' = ended \cup {session[r]}
       ELSE /\ store' = store
            /\ resp' = [resp EXCEPT ![r] = SessionNotFound]
            /\ ended' = ended
    /\ pc' = [pc EXCEPT ![r] = "done"]
    /\ req' = [req EXCEPT ![r] = Finished(@)]
    /\ session' = [session EXCEPT ![r] = 0]
    /\ UNCHANGED <<cacheVars, bindVars, settingVars, bootVars, received, agentVars,
                   nextSid, messages, stream>>

(***************************************************************************)
(* add_extension_handler and remove_extension_handler.                     *)
(***************************************************************************)
ExtensionLock(r) ==
    /\ pc[r] = "lock"
    /\ req[r].kind \in {"add_ext", "remove_ext"}
    /\ LockFree
    /\ lock' = r
    /\ pc' = [pc EXCEPT ![r] = "ext_op"]
    /\ UNCHANGED <<auxVars, bootVars, received, provider, extensions, storeVars, req, session, messages, stream, resp>>

AddFailed == "Failed to add extension configuration, error: refused"

\* agent.add_extension(extension).await
AddExtension(r) ==
    /\ pc[r] = "ext_op"
    /\ req[r].kind = "add_ext"
    /\ \/ /\ extensions' = extensions \cup {req[r].ext}
          /\ resp' = [resp EXCEPT ![r] = ExtensionResponse(FALSE, <<>>)]
       \/ /\ extensions' = extensions
          /\ resp' = [resp EXCEPT ![r] = ExtensionResponse(TRUE, <<AddFailed>>)]
    /\ lock' = Free
    /\ pc' = [pc EXCEPT ![r] = "done"]
    /\ req' = [req EXCEPT ![r] = Finished(@)]
    /\ UNCHANGED <<auxVars, bootVars, received, provider, storeVars, session, messages, stream>>

\* a removal that answers and leaves the agent as it was
RemoveExtension_LeavesRegistered(r) ==
    /\ pc[r] = "ext_op"
    /\ req[r].kind = "remove_ext"
    /\ extensions' = extensions
    /\ resp' = [resp EXCEPT ![r] = ExtensionResponse(FALSE, <<>>)]
    /\ lock' = Free
    /\ pc' = [pc EXCEPT ![r] = "done"]
    /\ req' = [req EXCEPT ![r] = Finished(@)]
    /\ UNCHANGED <<auxVars, bootVars, received, provider, storeVars, session, messages, stream>>

\* agent.remove_extension(&name).await
RemoveExtension(r) ==
    /\ pc[r] = "ext_op"
    /\ req[r].kind = "remove_ext"
    /\ extensions' = extensions \ {req[r].ext}
    /\ resp' = [resp EXCEPT ![r] = ExtensionResponse(FALSE, <<>>)]
    /\ lock' = Free
    /\ pc' = [pc EXCEPT ![r] = "done"]
    /\ req' = [req EXCEPT ![r] = Finished(@)]
    /\ UNCHANGED <<auxVars, bootVars, received, provider, storeVars, session, messages, stream>>

\* the messages of the Windows pre-step of add_extension_handler
InstallerMissing == "Node.js installer script not found"
InstallerFailed == "Failed to install Node.js: stderr"

\* the ways the Windows pre-step ends a request: the installer script is
\* missing or exits non-zero (answered in the body), or it cannot be
\* started, `.output().map_err(|_| warp::reject())?` (a rejection)
PreStepFailures == {"script_missing", "exit_nonzero", "not_startable"}

\* #[cfg(target_os = "windows")]: the pre-step of add_extension_handler
\* for a stdio command ending in npx when no Node runtime is found,
\* before AGENT.lock(); a pre-step that passes changes nothing
NodePreStep(r) ==
    /\ pc[r] = "lock"
    /\ req[r].kind = "add_ext"
    /\ \E failure \in PreStepFailures :
          IF failure = "not_startable"
          THEN /\ pc' = [pc EXCEPT ![r] = "rejected"]
               /\ resp' = [resp EXCEPT ![r] =
                             RejectionReply(RejectionStatus(composition, "NotFound"))]
          ELSE /\ pc' = [pc EXCEPT ![r] = "done"]
               /\ resp' = [resp EXCEPT ![r] =
                             ExtensionResponse(TRUE,
                                 <<IF failure = "script_missing"
                                   THEN InstallerMissing ELSE InstallerFailed>>)]
    /\ req' = [req EXCEPT ![r] = Finished(@)]
    /\ UNCHANGED <<auxVars, bootVars, agentVars, storeVars, received, session, messages, stream>>

Handle(r) ==
    \/ Receive(r)
    \/ StartLock(r)
    \/ ReplyLock(r)
    \/ ReplyRead(r)
    \/ AgentReply(r)
    \/ Persist(r)
    \/ EndSession(r)
    \/ ExtensionLock(r)
    \/ AddExtension(r)
    \/ RemoveExtension(r)

Next == Boot \/ \E r \in Requests : Handle(r)

Spec == Init /\ [][Next]_vars

SpecMain == InitMain /\ [][Next]_vars

\* the scheduling of the handlers: the tokio mutex hands the lock to its
\* waiters in the order they arrived, so a waiter is not passed over for
\* ever, and an awaited agent, stream or store operation returns
Fairness ==
    \A r \in Requests :
        /\ SF_vars(StartLock(r) \/ ReplyLock(r) \/ ExtensionLock(r))
        /\ WF_vars(ReplyRead(r) \/ AgentReply(r) \/ Persist(r)
                     \/ AddExtension(r) \/ RemoveExtension(r))

\* the runs of SpecLive start at the point of startup at
\* which the key loop is over for a provider that declares no key: the
\* settings are resolved and stored, provider creation and every
\* acquisition of the agent lock are still to come
InitLive ==
    /\ composition = "routes"
    /\ bootPc = "keys"
    /\ apiKey = "secret"
    /\ extPending \in ExtTables
    /\ keysPending = <<>>
    /\ bootError = ""
    /\ lock = Free
    /\ provider = NoProvider
    /\ extensions = {}
    /\ store = [t \in {} |-> <<>>]
    /\ nextSid = 1
    /\ received = 0
    /\ pc = [r \in Requests |-> "idle"]
    /\ req = [r \in Requests |-> NoReq]
    /\ session = [r \in Requests |-> 0]
    /\ messages = [r \in Requests |-> <<>>]
    /\ stream = [r \in Requests |-> <<>>]
    /\ resp = [r \in Requests |-> NoResp]
    /\ sessions = [k \in {} |-> 0]
    /\ now = 0
    /\ overflowChecks = FALSE
    /\ lastCall = NoCall
    /\ host = <<>>
    /\ addr = <<>>
    /\ port = <<>>
    /\ portNum = <<>>
    /\ environment \in ServerEnvs
    /\ api_config \in ServerFiles
    /\ config = set_param(set_param(EmptyStore, "GOOSE_PROVIDER", "openai"),
                          "GOOSE_MODEL", "gpt-4o")
    /\ ended = {}

NextLive ==
    \/ BootCreateProvider
    \/ BootProviderLock
    \/ BootProviderUpdate
    \/ BootExtNext
    \/ BootExtLock
    \/ BootExtAdd
    \/ BootSelfCheckLock
    \/ BootSelfCheckRelease
    \/ \E r \in Requests : Handle(r)

SpecLive == InitLive /\ [][NextLive]_vars /\ Fairness

\* the server built for Windows, where add_extension_handler has its
\* pre-step
NextWindows == Next \/ \E r \in Requests : NodePreStep(r)

SpecWindows == Init /\ [][NextWindows]_vars

\* the handlers under tests.rs: no startup sequence runs
NextContext == \E r \in Requests : Handle(r)

SpecContext == InitContext /\ [][NextContext]_vars

(***************************************************************************)
(* The settings: the layered resolution at startup and                     *)
(* get_provider_config_handler, which reads the configuration store.       *)
(* SpecSettings runs startup under every environment and configuration     *)
(* file, in the server of build_routes and with the crate's functions      *)
(* called directly (composition "tests"), where a handler can be called    *)
(* before startup has run.                                                 *)
(***************************************************************************)
\* the values each environment variable and configuration key can hold
SettingValues ==
    [ GOOSE_API_PROVIDER |-> {Unset, "anthropic"},
      GOOSE_API_MODEL |-> {Unset, "claude"},
      GOOSE_API_KEY |-> {Unset} \cup ApiKeyEnv,
      provider |-> {Unset, "ollama"},
      model |-> {Unset, "llama3"},
      api_key |-> ApiKeyFile ]

SettingEnvs ==
    { e \in [EnvNames -> UNION {SettingValues[n] : n \in EnvNames}] :
        \A n \in EnvNames : e[n] \in SettingValues[n] }
SettingFiles ==
    { f \in [FileKeys -> UNION {SettingValues[k] : k \in FileKeys}] :
        \A k \in FileKeys : f[k] \in SettingValues[k] }

\* the routes build_routes leaves without the gate
UngatedKinds == {"list_ext", "provider_config", "metrics"}

\* a routing table that puts the gate on every route
RouteOf_AllGated(comp, kind, header, key) == Route(comp, header, key)

\* build_routes: what stands between a request of a kind and its handler
RouteOf(comp, kind, header, key) ==
    IF kind \in UngatedKinds THEN "pass" ELSE Route(comp, header, key)

ProviderConfig(provider_name, model_name) ==
    [type |-> "ProviderConfig", code |-> 200,
     provider |-> provider_name, model |-> model_name]

\* a handler that answers with defaults unless both names are stored
get_provider_config_handler_Jointly(st) ==
    IF {"GOOSE_PROVIDER", "GOOSE_MODEL"} \subseteq DOMAIN st
    THEN ProviderConfig(st["GOOSE_PROVIDER"], st["GOOSE_MODEL"])
    ELSE ProviderConfig("Not configured", "Not configured")

\* config.get_param::<String>(name).unwrap_or_else(|_| "Not configured"),
\* for GOOSE_PROVIDER and for GOOSE_MODEL
get_provider_config_handler(st) ==
    ProviderConfig(
        IF "GOOSE_PROVIDER" \in DOMAIN st THEN st["GOOSE_PROVIDER"] ELSE "Not configured",
        IF "GOOSE_MODEL" \in DOMAIN st THEN st["GOOSE_MODEL"] ELSE "Not configured")

\* the functions of the crate are called directly, or the server accepts
Callable == composition = "tests" \/ Accepting

\* a route whose handler answers without waiting for the agent: the
\* filters of the route decide, and a request that passes gets the
\* handler's answer
ServeRoute(r, kind, answer) ==
    /\ Callable
    /\ received < NReq
    /\ Available(r)
    /\ \A q \in Requests : q < r => ~Available(q)
    /\ received' = received + 1
    /\ \E h \in {NoHeader} \cup HeaderValues :
          LET request == [NoReq EXCEPT !.kind = kind, !.header = h]
              cause == RouteOf(composition, kind, h, apiKey)
          IN /\ req' = [req EXCEPT ![r] = request]
             /\ IF cause = "pass"
                THEN /\ pc' = [pc EXCEPT ![r] = "done"]
                     /\ resp' = [resp EXCEPT ![r] = answer]
                ELSE /\ pc' = [pc EXCEPT ![r] = "rejected"]
                     /\ resp' = [resp EXCEPT ![r] =
                                   RejectionReply(RejectionStatus(composition, cause))]
    /\ UNCHANGED <<auxVars, bootVars, agentVars, storeVars, session, messages, stream>>

\* GET /provider/config
GetProviderConfig(r) ==
    ServeRoute(r, "provider_config", get_provider_config_handler(config))

InitSettings ==
    /\ sessions = [k \in {} |-> 0]
    /\ now = 0
    /\ overflowChecks = FALSE
    /\ lastCall = NoCall
    /\ host = <<>>
    /\ addr = <<>>
    /\ port = <<>>
    /\ portNum = <<>>
    /\ environment \in SettingEnvs
    /\ api_config \in SettingFiles
    /\ config = EmptyStore
    /\ ended = {}
    /\ \E comp \in {"routes", "tests"} : ServerInit(comp)

NextSettings == Boot \/ \E r \in Requests : GetProviderConfig(r)

SpecSettings == InitSettings /\ [][NextSettings]_vars

(***************************************************************************)
(* The whole routing table of build_routes: the routes of Next and the     *)
(* routes whose handlers answer in one step.                               *)
(***************************************************************************)
ExtensionsResponse(names) ==
    [type |-> "ExtensionsResponse", code |-> 200, extensions |-> names]

\* what EXTENSION_MANAGER, built by ExtensionManager::default() and never
\* written, lists
ManagerExtensions == <<>>

\* a list handler that reads the extensions registered with the agent
ListExtensions_FromAgent(r) ==
    \E names \in {<<e>> : e \in extensions} \cup {<<"Failed to list extensions">>} :
        ServeRoute(r, "list_ext", ExtensionsResponse(names))

\* GET /extensions/list: list_extensions_handler
ListExtensions(r) ==
    \E names \in {ManagerExtensions, <<"Failed to list extensions">>} :
        ServeRoute(r, "list_ext", ExtensionsResponse(names))

\* the answer of a handler whose body is not part of the sources
UnspecifiedAnswer(kind) == [type |-> "unspecified", handler |-> kind]

\* GET /metrics: metrics_handler
Metrics(r) == ServeRoute(r, "metrics", UnspecifiedAnswer("metrics"))

\* POST /session/summarize: summarize_session_handler
Summarize(r) == ServeRoute(r, "summarize", UnspecifiedAnswer("summarize"))

NextRoutes ==
    \/ Next
    \/ \E r \in Requests : ListExtensions(r)
    \/ \E r \in Requests : GetProviderConfig(r)
    \/ \E r \in Requests : Metrics(r)
    \/ \E r \in Requests : Summarize(r)

SpecRoutes == Init /\ [][NextRoutes]_vars

(***************************************************************************)
(* The session-activity registry (api_sessions.rs).  No handler uses it;   *)
(* SpecSessions is the registry under its callers: records are inserted    *)
(* and touched, the system clock moves, is_expired is asked and            *)
(* cleanup_expired_sessions sweeps.                                        *)
(***************************************************************************)
SESSION_TIMEOUT_SECS == 3600

\* number of identifiers the registry is populated with
MaxCache == 2
CacheIds == 1..MaxCache
AgentHandles == {"agentA", "agentB"}

\* the values current_timestamp() returns in a run; the system clock is
\* not monotonic, it can be set back between two readings
Instants == {0, 1, 3600, 3601, 3602, 7202}

\* ApiSession::new at time t
ApiSessionNew(agent, t) == [agent |-> agent, last_active |-> t]

\* ApiSession::touch at time t
touch(sess, t) == [sess EXCEPT !.last_active = t]

\* `a - b > limit` on u64 as the release build computes it: for a < b the
\* difference wraps to 2^64 - (b - a), which is above limit for every
\* value of the model (b - a and limit are below 2^31)
WrappingSubExceeds(a, b, limit) ==
    IF a >= b THEN a - b > limit ELSE TRUE

\* ApiSession::is_expired at time t: TRUE or FALSE, or "panic" when the
\* subtraction overflows in a build with overflow checks
is_expired(sess, ttl, t, checks) ==
    IF t < sess.last_active /\ checks THEN "panic"
    ELSE IF WrappingSubExceeds(t, sess.last_active, ttl) THEN "expired"
    ELSE "live"

\* SESSIONS.retain(|_, sess| !sess.is_expired(ttl)) when no call panics
Retained(reg, ttl, t, checks) ==
    [k \in {j \in DOMAIN reg : is_expired(reg[j], ttl, t, checks) = "live"} |-> reg[k]]

\* the registry in the state the server leaves it, any moment of the clock,
\* either build profile
InitSessions ==
    /\ ServerInit("routes")
    /\ sessions = [k \in {} |-> 0]
    /\ now \in Instants
    /\ overflowChecks \in BOOLEAN
    /\ lastCall = NoCall
    /\ host = <<>>
    /\ addr = <<>>
    /\ port = <<>>
    /\ portNum = <<>>
    /\ NoSettings
    /\ ended = {}

\* SESSIONS.insert(id, ApiSession::new(agent))
InsertSession(id) ==
    /\ \E agent \in AgentHandles :
          sessions' = [k \in DOMAIN sessions \cup {id} |->
                          IF k = id THEN ApiSessionNew(agent, now) ELSE sessions[k]]
    /\ lastCall' = [op |-> "insert", id |-> id]
    /\ UNCHANGED <<serverVars, bindVars, settingVars, historyVars, now, overflowChecks>>

\* SESSIONS.get(&id) and touch()
TouchSession(id) ==
    /\ id \in DOMAIN sessions
    /\ sessions' = [sessions EXCEPT ![id] = touch(@, now)]
    /\ lastCall' = [op |-> "touch", id |-> id]
    /\ UNCHANGED <<serverVars, bindVars, settingVars, historyVars, now, overflowChecks>>

\* a clock whose passage evicts the records that are then expired
ClockStep_Evicts ==
    /\ \E t \in Instants \ {now} :
          /\ now' = t
          /\ sessions' = Retained(sessions, SESSION_TIMEOUT_SECS, t, FALSE)
    /\ lastCall' = [op |-> "clock"]
    /\ UNCHANGED <<serverVars, bindVars, settingVars, historyVars, overflowChecks>>

\* the system clock shows another value
ClockStep ==
    /\ \E t \in Instants \ {now} : now' = t
    /\ lastCall' = [op |-> "clock"]
    /\ UNCHANGED <<serverVars, bindVars, settingVars, historyVars, sessions, overflowChecks>>

\* is_expired(Duration::from_secs(SESSION_TIMEOUT_SECS)) on one record
CheckExpired(id) ==
    /\ id \in DOMAIN sessions
    /\ lastCall' = [op |-> "is_expired", id |-> id,
                    result |-> is_expired(sessions[id], SESSION_TIMEOUT_SECS,
                                          now, overflowChecks)]
    /\ UNCHANGED <<serverVars, bindVars, settingVars, historyVars, sessions, now, overflowChecks>>

\* cleanup_expired_sessions.  A panic of is_expired unwinds out of retain:
\* the records visited before it were kept or removed, the others stay
cleanup_expired_sessions ==
    LET verdictOf(k) == is_expired(sessions[k], SESSION_TIMEOUT_SECS, now, overflowChecks)
        panics == {k \in DOMAIN sessions : verdictOf(k) = "panic"}
    IN /\ IF panics = {}
          THEN /\ sessions' = Retained(sessions, SESSION_TIMEOUT_SECS, now, overflowChecks)
               /\ lastCall' = [op |-> "cleanup", result |-> "returned"]
          ELSE /\ \E visited \in SUBSET (DOMAIN sessions \ panics) :
                     sessions' = [k \in DOMAIN sessions \
                                        {j \in visited : verdictOf(j) = "expired"}
                                    |-> sessions[k]]
               /\ lastCall' = [op |-> "cleanup", result |-> "panicked"]
       /\ UNCHANGED <<serverVars, bindVars, settingVars, historyVars, now, overflowChecks>>

NextSessions ==
    \/ \E id \in CacheIds : InsertSession(id)
    \/ \E id \in CacheIds : TouchSession(id)
    \/ ClockStep
    \/ \E id \in CacheIds : CheckExpired(id)
    \/ cleanup_expired_sessions

SpecSessions == InitSessions /\ [][NextSessions]_vars

\* a state the server reaches (Spec): started without a boot error, it has
\* created session 1 and refused a request without a key header
ServedTwo ==
    /\ composition = "routes"
    /\ bootPc = "serving"
    /\ apiKey = "secret"
    /\ extPending = <<>>
    /\ keysPending = <<>>
    /\ bootError = ""
    /\ lock = Free
    /\ provider = "configured"
    /\ extensions = {}
    /\ store = [t \in {1} |-> <<UserMsg(Prompt(1))>>]
    /\ nextSid = 2
    /\ received = NReq - 1
    /\ pc = [r \in Requests |-> IF r = 1 THEN "rejected" ELSE "idle"]
    /\ req = [r \in Requests |->
                IF r = 1 THEN [NoReq EXCEPT !.kind = "start"] ELSE NoReq]
    /\ session = [r \in Requests |-> 0]
    /\ messages = [r \in Requests |-> <<>>]
    /\ stream = [r \in Requests |-> <<>>]
    /\ resp = [r \in Requests |->
                 IF r = 1
                 THEN RejectionReply(RejectionStatus("routes", "MissingHeader"))
                 ELSE NoResp]
    /\ environment = [n \in EnvNames |-> IF n = "GOOSE_API_KEY" THEN "secret" ELSE Unset]
    /\ api_config = [k \in FileKeys |-> Unset]
    /\ config = set_param(set_param(EmptyStore, "GOOSE_PROVIDER", "openai"),
                          "GOOSE_MODEL", "gpt-4o")
    /\ ended = {}

\* the registry next to the running server: the server serves one more
\* request of any kind while the registry is used and the clock moves
InitCache ==
    /\ ServedTwo
    /\ sessions = [k \in {} |-> 0]
    /\ now = 0
    /\ overflowChecks = FALSE
    /\ lastCall = NoCall
    /\ host = <<>>
    /\ addr = <<>>
    /\ port = <<>>
    /\ portNum = <<>>

NextCache ==
    \/ \E r \in Requests : Handle(r)
    \/ \E r \in Requests : GetProviderConfig(r)
    \/ NextSessions

SpecCache == InitCache /\ [][NextCache]_vars

(***************************************************************************)
(* The bind address (routes.rs run_server, main.rs main): the resolved     *)
(* host value is split at the dots and each part parsed as u8.  A string   *)
(* is a sequence of characters.                                            *)
(***************************************************************************)
\* number of dot-separated parts of the host values tried
MaxParts == 4

Digits == <<"0", "1", "2", "3", "4", "5", "6", "7", "8", "9">>
IsDigit(c) == \E d \in 1..10 : Digits[d] = c
DigitValue(c) == (CHOOSE d \in 1..10 : Digits[d] = c) - 1

\* the parts host values are made of: octets, numbers above 255, text,
\* the empty string, a signed number
PartTexts ==
    { <<"0">>, <<"1">>, <<"1", "0">>, <<"2", "5", "5">>, <<"2", "5", "6">>,
      <<"a">>, <<>>, <<"+", "7">> }

RECURSIVE JoinDots(_)
JoinDots(parts) ==
    IF Len(parts) = 1 THEN Head(parts)
    ELSE Head(parts) \o <<".">> \o JoinDots(Tail(parts))

\* the values GOOSE_API_HOST or the configuration key host can hold
HostValues ==
    UNION { { JoinDots(ps) : ps \in [1..n -> PartTexts] } : n \in 1..MaxParts }

\* str::split('.'): the parts between the dots, with cur the part being read
RECURSIVE split(_, _)
split(str, cur) ==
    IF str = <<>> THEN <<cur>>
    ELSE IF Head(str) = "." THEN <<cur>> \o split(Tail(str), <<>>)
    ELSE split(Tail(str), Append(cur, Head(str)))

\* the Err of str::parse::<u8>
ParseErr == -1

\* the digits of a u8 read left to right with checked arithmetic
RECURSIVE ParseDigits(_, _)
ParseDigits(acc, str) ==
    IF str = <<>> THEN acc
    ELSE IF ~IsDigit(Head(str)) THEN ParseErr
    ELSE LET v == acc * 10 + DigitValue(Head(str)) IN
         IF v > 255 THEN ParseErr ELSE ParseDigits(v, Tail(str))

\* str::parse::<u8>: an optional "+", then at least one digit
parse_u8(str) ==
    LET digits == IF str # <<>> /\ Head(str) = "+" THEN Tail(str) ELSE str
    IN IF digits = <<>> THEN ParseErr ELSE ParseDigits(0, digits)

\* Result::unwrap_or
unwrap_or(result, default) == IF result = ParseErr THEN default ELSE result

\* host.split('.').map(|part| part.parse::<u8>().unwrap_or(127)).collect()
host_parts(h) ==
    LET parts == split(h, <<>>)
    IN [i \in 1..Len(parts) |-> unwrap_or(parse_u8(parts[i]), 127)]

\* `if host_parts.len() == 4 { [..] } else { [127, 0, 0, 1] }`
BindAddr(h) ==
    LET octets == host_parts(h)
    IN IF Len(octets) = 4 THEN octets ELSE <<127, 0, 0, 1>>

\* run_server at the point where the host value is resolved
InitBind ==
    /\ ServerInit("routes")
    /\ sessions = [k \in {} |-> 0]
    /\ now = 0
    /\ overflowChecks = FALSE
    /\ lastCall = NoCall
    /\ host \in HostValues
    /\ addr = <<>>
    /\ port = <<>>
    /\ portNum = <<>>
    /\ NoSettings
    /\ ended = {}

\* the bind address is computed from the host value
ParseHost ==
    /\ addr = <<>>
    /\ addr' = BindAddr(host)
    /\ UNCHANGED <<serverVars, cacheVars, settingVars, historyVars, host, port, portNum>>

NextBind == ParseHost

SpecBind == InitBind /\ [][NextBind]_vars

(***************************************************************************)
(* The bind port (routes.rs run_server, main.rs main): the resolved port   *)
(* value is parsed as u16.                                                 *)
(***************************************************************************)
\* length of the port values tried
MaxPortLen == 6

\* the characters port values are made of
PortChars == {"0", "3", "5", "6", "+", "-", "a"}

\* the values GOOSE_API_PORT or the configuration key port can hold
PortValues == UNION { [1..n -> PortChars] : n \in 0..MaxPortLen }

\* the digits of a u16 read left to right with checked arithmetic
RECURSIVE ParseDigits16(_, _)
ParseDigits16(acc, str) ==
    IF str = <<>> THEN acc
    ELSE IF ~IsDigit(Head(str)) THEN ParseErr
    ELSE LET v == acc * 10 + DigitValue(Head(str)) IN
         IF v > 65535 THEN ParseErr ELSE ParseDigits16(v, Tail(str))

\* a parse that takes digits only
parse_u16_DigitsOnly(str) ==
    IF str = <<>> THEN ParseErr ELSE ParseDigits16(0, str)

\* str::parse::<u16>: an optional "+", then at least one digit
parse_u16(str) ==
    LET digits == IF str # <<>> /\ Head(str) = "+" THEN Tail(str) ELSE str
    IN IF digits = <<>> THEN ParseErr ELSE ParseDigits16(0, digits)

\* `.parse::<u16>().unwrap_or(8080)`
BindPort(str) == unwrap_or(parse_u16(str), 8080)

\* run_server at the point where the port value is resolved
InitPort ==
    /\ ServerInit("routes")
    /\ sessions = [k \in {} |-> 0]
    /\ now = 0
    /\ overflowChecks = FALSE
    /\ lastCall = NoCall
    /\ host = <<>>
    /\ addr = <<>>
    /\ port \in PortValues
    /\ portNum = <<>>
    /\ NoSettings
    /\ ended = {}

\* the bind port is computed from the port value
ParsePort ==
    /\ portNum = <<>>
    /\ portNum' = <<BindPort(port)>>
    /\ UNCHANGED <<serverVars, cacheVars, settingVars, historyVars, host, addr, port>>

NextPort == ParsePort

SpecPort == InitPort /\ [][NextPort]_vars

(***************************************************************************)
(* Properties.                                                             *)
(***************************************************************************)
IsPrefix(s, t) == Len(s) <= Len(t) /\ SubSeq(t, 1, Len(s)) = s

\* the positions at which a request is inside its handler
HandlerPcs == {"lock", "read", "agent", "persist", "end", "ext_op"}

\* the positions at which a task holds the shared agent
HoldsAgent(r) == pc[r] \in {"read", "agent", "persist", "ext_op"}
BootHoldsAgent == bootPc \in {"provider_update", "ext_add", "selfcheck_locked"}

\* the step in which connection r receives a request
ReceiveStep(r) ==
    /\ received' = received + 1
    /\ Available(r)
    /\ \A q \in Requests : q < r => ~Available(q)

\* a Reply that has read the transcript and has not yet persisted it
InReadModifyPersist(r) == req[r].kind = "reply" /\ pc[r] \in {"agent", "persist"}

\* C1: on every gated route of build_routes a request whose x-api-key equals
\* the configured secret enters the route's handler, and a request with
\* another value or without the header is rejected and never enters a
\* handler: it takes no lock and touches no transcript and no extension.
C1_GateDecides ==
    /\ [](\A r \in Requests : pc[r] \in HandlerPcs => req[r].header = apiKey)
    /\ [][\A r \in Requests :
            /\ ReceiveStep(r) =>
                 /\ req'[r].kind \in GatedKinds
                 /\ IF req'[r].header = apiKey
                    THEN pc'[r] = (IF req'[r].kind = "end" THEN "end" ELSE "lock")
                    ELSE /\ pc'[r] = "rejected"
                         /\ resp'[r].type = "rejection"
                         /\ lock' = lock /\ store' = store /\ extensions' = extensions
            /\ (pc[r] = "rejected" /\ ~ReceiveStep(r)) => pc'[r] = "rejected"]_vars

\* C1 witness: one request passed the gate and waits in its handler while
\* another, with a wrong key, was rejected
C1_Witness ==
    \E r, q \in Requests :
        /\ pc[r] = "lock" /\ req[r].header = apiKey
        /\ pc[q] = "rejected" /\ req[q].header = "wrong"

\* C2: a request with a wrong x-api-key value is answered 401 UNAUTHORIZED
C2_WrongKeyIs401 ==
    \A r \in Requests :
        (pc[r] = "rejected" /\ req[r].header \notin {NoHeader, apiKey})
            => resp[r].code = 401

\* C3 as stated: two concurrent Reply calls to one session race, that is, a
\* Reply that waits while another Reply to the same session is between its
\* read and its persist can go on to read the transcript
C3_RepliesRace ==
    \A r, q \in Requests :
        ( /\ InReadModifyPersist(r)
          /\ req[q].kind = "reply" /\ pc[q] = "lock"
          /\ session[q] = session[r] )
            => ENABLED ReplyLock(q)

\* C3 amended: Reply calls are serialized by the agent lock, which is held
\* from before the transcript read until after the persist: no two Reply
\* calls are between read and persist at once, and a Reply's persist never
\* drops a message of the transcript stored at that moment
C3_RepliesSerialized ==
    /\ [](\A r, q \in Requests :
            (InReadModifyPersist(r) /\ InReadModifyPersist(q)) => r = q)
    /\ [][\A r \in Requests :
            ( /\ req[r].kind = "reply" /\ pc[r] = "persist" /\ pc'[r] = "done"
              /\ session[r] \in DOMAIN store /\ session[r] \in DOMAIN store' )
                => IsPrefix(store[session[r]], store'[session[r]])]_vars

\* C3 witness: a Reply has read the transcript of a session while a second
\* Reply to the same session is waiting for the lock
C3_Witness ==
    \E r, q \in Requests :
        /\ InReadModifyPersist(r)
        /\ req[q].kind = "reply" /\ pc[q] = "lock"
        /\ session[q] = session[r]

\* C4: at every moment at most one task - a request handler or a startup
\* step - is inside an operation on the shared agent
C4_OneAgentUser ==
    Cardinality({r \in Requests : HoldsAgent(r)}) + (IF BootHoldsAgent THEN 1 ELSE 0) <= 1

\* C4 witness: a handler drives the agent while another request waits
C4_Witness ==
    \E r, q \in Requests : pc[r] = "agent" /\ pc[q] = "lock"

\* the step in which request r is answered by its handler
Answered(r) == pc[r] \in HandlerPcs /\ pc'[r] = "done"

\* the user message a prompt becomes
PromptMessage(p) == [role |-> "user", content |-> <<[type |-> "text", text |-> p]>>]

\* the text of each message the agent can yield first
TextOf(m) ==
    IF m = [role |-> "assistant",
            content |-> <<[type |-> "text", text |-> "a"], [type |-> "text", text |-> "b"]>>]
    THEN "a\nb"
    ELSE ""

C6_AnswerMatchesStore ==
    [][\A r \in Requests :
         (req[r].kind \in {"start", "reply"} /\ Answered(r)
            /\ resp'[r].status \in {"success", "warning"}) =>
               /\ session[r] \in DOMAIN store'
               /\ store'[session[r]] = messages[r]]_vars

\* C7: Start session answers a first message with "success", the message's
\* concatenated text, the new session identifier and 200; a stream that
\* yields no message with "warning", "Session started but no response
\* generated" and 200; a failed reply call with "error", 500 and a body
\* without session identifier; and no other status and code
C7_StartOutcomes ==
    [][\A r \in Requests :
         (req[r].kind = "start" /\ Answered(r)) =>
            /\ (pc[r] = "persist" /\ stream[r] # <<>> /\ Head(stream[r]).ok) =>
                  resp'[r] = [type |-> "StartSessionResponse", code |-> 200,
                              message |-> TextOf(Head(stream[r]).msg),
                              status |-> "success", session_id |-> session[r]]
            /\ (pc[r] = "persist" /\ ~(stream[r] # <<>> /\ Head(stream[r]).ok)) =>
                  resp'[r] = [type |-> "StartSessionResponse", code |-> 200,
                              message |-> "Session started but no response generated",
                              status |-> "warning", session_id |-> session[r]]
            /\ pc[r] = "agent" =>
                  /\ resp'[r].type = "ApiResponse"
                  /\ resp'[r].status = "error" /\ resp'[r].code = 500
            /\ <<resp'[r].status, resp'[r].code>> \in
                  {<<"success", 200>>, <<"warning", 200>>, <<"error", 500>>}
            /\ session[r] = nextSid - 1]_vars

\* C7 witness: a Start session answered "success" with the text of a
\* two-block message
C7_Witness ==
    \E r \in Requests :
        /\ req[r].kind = "start" /\ pc[r] = "done"
        /\ resp[r].type = "StartSessionResponse"
        /\ resp[r].status = "success" /\ resp[r].message = "a\nb"

\* C8: Reply to session for an identifier without transcript answers
\* "error", "Session not found", 404, drives no agent reply and creates or
\* writes no transcript
C8_ReplyNotFound ==
    [][\A r \in Requests :
         (pc[r] = "read" /\ pc'[r] # "read" /\ session[r] \notin DOMAIN store) =>
            /\ pc'[r] = "done"
            /\ resp'[r] = [type |-> "ApiResponse", code |-> 404,
                           message |-> "Session not found", status |-> "error"]
            /\ store' = store]_vars

\* C8 witness: a Reply was answered 404
C8_Witness ==
    \E r \in Requests :
        req[r].kind = "reply" /\ pc[r] = "done" /\ resp[r].code = 404

\* C9: a Reply answered "success" leaves as the stored transcript exactly
\* the transcript it read, then the prompt as a user message, then the
\* first message of the reply stream, and answers "Reply: " and that
\* message's text
C9_ReplyPersistsExactly ==
    [][\A r \in Requests :
         (req[r].kind = "reply" /\ Answered(r) /\ resp'[r].status = "success") =>
            LET n == Len(messages[r])
                old == SubSeq(messages[r], 1, n - 2)
            IN /\ n >= 2
               /\ session[r] \in DOMAIN store => old = store[session[r]]
               /\ session[r] \in DOMAIN store'
               /\ store'[session[r]] =
                     old \o <<PromptMessage(req[r].prompt), Head(stream[r]).msg>>
               /\ resp'[r].message = "Reply: " \o TextOf(Head(stream[r]).msg)]_vars

HasSummaryText(m) ==
    \E i \in 1..Len(m.content) :
        m.content[i].type = "text" /\ m.content[i].text = "summary"

\* a message whose first content block is the "context length exceeded"
\* marker
StartsWithMarker(m) ==
    m.content # <<>> /\ m.content[1].type = "context_length_exceeded"

\* C11: with the provider that fails every completion with "context length
\* exceeded" unless the system prompt contains "summarizing", the transcript
\* a Start session persists contains a message whose text includes "summary"
C11_StartLeavesSummary ==
    [][\A r \in Requests :
         ( /\ provider = "ContextProvider"
           /\ req[r].kind = "start" /\ pc[r] = "persist" /\ pc'[r] = "done"
           /\ session[r] \in DOMAIN store' ) =>
              \E i \in 1..Len(store'[session[r]]) :
                  HasSummaryText(store'[session[r]][i])]_vars

\* C12: with the same provider, a Reply to an existing session is answered
\* with status "warning", not "success" and not "error"
C12_ReplyIsWarning ==
    [][\A r \in Requests :
         ( /\ provider = "ContextProvider"
           /\ req[r].kind = "reply" /\ pc[r] = "persist" /\ pc'[r] = "done" ) =>
              resp'[r].status = "warning"]_vars

\* C13: with the same provider, no message of any persisted transcript has
\* the "context length exceeded" marker as its first content block
C13_NoMarkerPersisted ==
    provider = "ContextProvider" =>
        \A t \in DOMAIN store : \A i \in 1..Len(store[t]) :
            ~StartsWithMarker(store[t][i])

(***************************************************************************)
(* The session-activity registry (SpecSessions).                           *)
(***************************************************************************)
\* C14: is_expired reports a record expired exactly when the current time
\* minus its last-activity time, in whole seconds, is strictly greater than
\* the time-to-live of 3600 seconds, and not expired otherwise
C14_ExpiredIffElapsedExceedsTtl ==
    lastCall.op = "is_expired" =>
        IF now - sessions[lastCall.id].last_active > 3600
        THEN lastCall.result = "expired"
        ELSE lastCall.result = "live"

\* C15: a cleanup sweep removes exactly the records that are expired under
\* the 3600-second time-to-live and leaves every other record present with
\* its agent handle and its last-activity timestamp unchanged
C15_CleanupRemovesExactlyExpired ==
    [][lastCall'.op = "cleanup" =>
         /\ DOMAIN sessions' =
               {k \in DOMAIN sessions : ~(now - sessions[k].last_active > 3600)}
         /\ \A k \in DOMAIN sessions' : sessions'[k] = sessions[k]]_vars

(***************************************************************************)
(* Startup (Spec).                                                         *)
(***************************************************************************)
\* the stages of run_server: 0 configuration load, 1 provider bootstrap,
\* 2 extension bootstrap, 3 self-check, 4 serving, 5 ended with an error
StageOf(p) ==
    CASE p = "load" -> 0
      [] p \in {"provider", "keys", "provider_lock", "provider_update"} -> 1
      [] p \in {"extensions", "ext_lock", "ext_add"} -> 2
      [] p \in {"selfcheck", "selfcheck_locked"} -> 3
      [] p = "serving" -> 4
      [] OTHER -> 5

C17_FatalAndLoggedFailures ==
    /\ [](bootPc = "exited" =>
            /\ received = 0 /\ \A r \in Requests : pc[r] = "idle"
            /\ bootError \in {"configuration could not be loaded",
                              "configuration store could not be written",
                              "Required key K1 not provided",
                              "Required key K2 not provided",
                              "Required key K3 not provided",
                              "provider could not be created",
                              "provider could not be installed"})
    /\ [](StageOf(bootPc) \in {2, 3} => ENABLED Boot)
    /\ [][/\ bootPc = "exited" => bootPc' = "exited"
          /\ (StageOf(bootPc) \in {0, 1} /\ bootError' # bootError) => bootPc' = "exited"
          /\ StageOf(bootPc) \in {2, 3} => StageOf(bootPc') \in {2, 3, 4}]_vars

\* C17 witness: a request is being served although extension bootstrap
\* ended with an error
C17_Witness ==
    /\ bootError = "Failed to deserialize extension config for e1"
    /\ \E r \in Requests : pc[r] \in {"lock", "agent"}

\* C18: when the loop over the provider's keys meets a key whose environment
\* variable is absent, a required key ends initialization with "Required
\* key <name> not provided" and no provider is installed; a key that is not
\* required leaves the loop going with the remaining keys
C18_RequiredKeyMissing ==
    /\ [](bootPc = "exited" => provider = "none")
    /\ [][(bootPc = "keys" /\ keysPending # <<>> /\ ~Head(keysPending).present) =>
            IF Head(keysPending).required
            THEN /\ bootPc' = "exited"
                 /\ bootError' = "Required key " \o Head(keysPending).name \o " not provided"
                 /\ provider' = "none" /\ lock' = lock
            ELSE /\ bootPc' = "keys"
                 /\ keysPending' = Tail(keysPending)
                 /\ bootError' = bootError]_vars

\* C18 witness: initialization went past the first key and failed on the
\* second, which is required and absent
C18_Witness ==
    bootPc = "exited" /\ bootError = "Required key K2 not provided"

\* entry e is among the entries still to be visited
StillPending(e, pending) == \E j \in 1..Len(pending) : pending[j] = e

\* the registration attempt of the entry at the head of the table ends
AttemptEnds == bootPc = "ext_add" /\ bootPc' # "ext_add"

\* during startup an extension is registered only by the attempt of an
\* enabled entry, and an attempt, failed or not, leaves the remaining
\* entries to be visited
AttemptsAreIndependent ==
    /\ AttemptEnds =>
          /\ bootPc' = "extensions"
          /\ extPending' = Tail(extPending)
          /\ extensions' \in {extensions, extensions \cup {Head(extPending).name}}
    /\ (bootPc # "serving" /\ extensions' # extensions) =>
          /\ AttemptEnds
          /\ Head(extPending).state = "enabled"
    /\ (bootPc = "extensions" /\ extPending # <<>> /\ Head(extPending).state = "disabled") =>
          /\ bootPc' = "extensions"
          /\ extensions' = extensions

\* C19 as stated: every enabled entry of the extensions table gets a
\* registration attempt whatever happened to the other entries (an enabled
\* entry leaves the table only by its own attempt), a failed registration
\* does not end the loop, and a disabled entry is never registered
C19_EveryEnabledEntryTried ==
    [][/\ AttemptsAreIndependent
       /\ \A i \in 1..Len(extPending) :
            extPending[i].state = "enabled" =>
               \/ StillPending(extPending[i], extPending')
               \/ (i = 1 /\ AttemptEnds)]_vars

\* C19 amended: every enabled entry that no entry failing to deserialize
\* precedes in the table gets a registration attempt, whatever the outcome
\* of the attempts for the other entries; a failed registration does not
\* end the loop, and a disabled entry is never registered
C19_EnabledEntryTriedUnlessMalformedBefore ==
    [][/\ AttemptsAreIndependent
       /\ \A i \in 1..Len(extPending) :
            ( /\ extPending[i].state = "enabled"
              /\ \A j \in 1..(i - 1) : extPending[j].state # "malformed" ) =>
               \/ StillPending(extPending[i], extPending')
               \/ (i = 1 /\ AttemptEnds)]_vars

\* C19 witness: the second entry is being registered after the registration
\* of the first one failed
C19_Witness ==
    /\ bootPc = "ext_add"
    /\ Head(extPending).name = "e2"
    /\ bootError = "Failed to add extension e1"

(***************************************************************************)
(* The bind address (SpecBind).                                            *)
(***************************************************************************)
\* the host value is exactly four dot-separated unsigned 8-bit integers
IsFourOctets(h) ==
    LET parts == split(h, <<>>)
    IN Len(parts) = 4 /\ \A i \in 1..4 : parse_u8(parts[i]) \in 0..255

\* C20: a host value that is not exactly four dot-separated unsigned 8-bit
\* integers (a part that is no number or is above 255, or a number of parts
\* other than four) gives the bind address 127.0.0.1; four valid octets give
\* exactly those octets
C20_HostFallsBackToLoopback ==
    addr # <<>> =>
        IF IsFourOctets(host)
        THEN LET parts == split(host, <<>>)
             IN addr = [i \in 1..4 |-> parse_u8(parts[i])]
        ELSE addr = <<127, 0, 0, 1>>

(***************************************************************************)
(* The bind port.                                                          *)
(***************************************************************************)
\* a nonempty string of decimal digits
IsDigitString(str) == str # <<>> /\ \A i \in 1..Len(str) : IsDigit(str[i])

\* the integer a string of decimal digits denotes
RECURSIVE DecimalValue(_, _)
DecimalValue(acc, str) ==
    IF str = <<>> THEN acc ELSE DecimalValue(acc * 10 + DigitValue(Head(str)), Tail(str))

\* the port a digit string stands for, 8080 when it is none or too large
PortOfDigits(str) ==
    IF IsDigitString(str) /\ DecimalValue(0, str) <= 65535
    THEN DecimalValue(0, str) ELSE 8080

\* C21 as stated: a port value that is the decimal form of an integer in
\* 0..65535 is used as is, and every other value (non-numeric, negative,
\* empty, above 65535) gives port 8080
C21_PortOrDefault ==
    portNum # <<>> => portNum[1] = PortOfDigits(port)

\* C21 amended: a port value that is a string of decimal digits, optionally
\* preceded by one "+", denoting an integer in 0..65535 is used as that
\* integer, and every other value gives port 8080
C21_PortOrDefaultWithPlus ==
    portNum # <<>> =>
        portNum[1] = PortOfDigits(IF port # <<>> /\ Head(port) = "+"
                                  THEN Tail(port) ELSE port)

\* C21 witness: the largest port was used as is, written with a "+"
C21_Witness ==
    /\ port = <<"+", "6", "5", "5", "3", "5">>
    /\ portNum = <<65535>>

(***************************************************************************)
(* The settings.                                                           *)
(***************************************************************************)
\* the value of a name in the configuration store, "Not configured" when
\* the store does not hold the name
StoredOr(name) == IF name \in DOMAIN config THEN config[name] ELSE "Not configured"

\* the step in which connection r is answered by Get provider config
ProviderConfigStep(r) ==
    /\ ReceiveStep(r)
    /\ req'[r].kind = "provider_config"

\* C22: Get provider config answers 200 always, with provider the stored
\* GOOSE_PROVIDER and model the stored GOOSE_MODEL, each replaced on its
\* own by "Not configured" when the store does not hold it; before the
\* provider bootstrap has run both are "Not configured"
C22_ProviderConfig ==
    [][\A r \in Requests :
         ProviderConfigStep(r) =>
            /\ resp'[r] = [type |-> "ProviderConfig", code |-> 200,
                           provider |-> StoredOr("GOOSE_PROVIDER"),
                           model |-> StoredOr("GOOSE_MODEL")]
            /\ bootPc \in {"load", "provider"} =>
                  /\ resp'[r].provider = "Not configured"
                  /\ resp'[r].model = "Not configured"
            /\ config' = config]_vars

\* C22 witness: the store holds the provider name and no model name, and
\* the answer names the provider and says "Not configured" for the model
C22_Witness ==
    \E r \in Requests :
        /\ req[r].kind = "provider_config" /\ pc[r] = "done"
        /\ DOMAIN config = {"GOOSE_PROVIDER"}
        /\ resp[r].provider = "anthropic"
        /\ resp[r].model = "Not configured"

\* the value the layers give: the environment variable when set, else the
\* configuration key when present, else the default
Layered(envName, fileKey, default) ==
    CASE environment[envName] # Unset -> environment[envName]
      [] environment[envName] = Unset /\ api_config[fileKey] # Unset -> api_config[fileKey]
      [] environment[envName] = Unset /\ api_config[fileKey] = Unset -> default

\* startup has resolved the shared secret
SecretResolved == bootPc \notin {"load", "exited"} \/ apiKey # Unset

\* C23: the provider name, the model name and the API key are each resolved
\* to the environment variable (GOOSE_API_PROVIDER, GOOSE_API_MODEL,
\* GOOSE_API_KEY) when it is set, else to the configuration key (provider,
\* model, api_key) when present, else to the default ("openai", "gpt-4o",
\* "default_api_key"); a set environment variable always wins
C23_LayeredResolution ==
    /\ SecretResolved =>
          /\ apiKey = Layered("GOOSE_API_KEY", "api_key", "default_api_key")
          /\ environment["GOOSE_API_KEY"] # Unset => apiKey = environment["GOOSE_API_KEY"]
    /\ "GOOSE_PROVIDER" \in DOMAIN config =>
          /\ config["GOOSE_PROVIDER"] = Layered("GOOSE_API_PROVIDER", "provider", "openai")
          /\ environment["GOOSE_API_PROVIDER"] # Unset =>
                config["GOOSE_PROVIDER"] = environment["GOOSE_API_PROVIDER"]
    /\ "GOOSE_MODEL" \in DOMAIN config =>
          /\ config["GOOSE_MODEL"] = Layered("GOOSE_API_MODEL", "model", "gpt-4o")
          /\ environment["GOOSE_API_MODEL"] # Unset =>
                config["GOOSE_MODEL"] = environment["GOOSE_API_MODEL"]
    /\ bootPc \in {"keys", "serving"} =>
          {"GOOSE_PROVIDER", "GOOSE_MODEL"} \subseteq DOMAIN config

\* C23 witness: the server serves with the provider name taken from the
\* environment although the file names another, the secret taken from the
\* file, and the model name left to its default
C23_Witness ==
    /\ bootPc = "serving"
    /\ environment["GOOSE_API_PROVIDER"] = "anthropic" /\ api_config["provider"] = "ollama"
    /\ config["GOOSE_PROVIDER"] = "anthropic"
    /\ environment["GOOSE_API_KEY"] = Unset /\ apiKey = "filekey"
    /\ config["GOOSE_MODEL"] = "gpt-4o"

(***************************************************************************)
(* The extension handlers.                                                 *)
(***************************************************************************)
\* the step in which the Add extension request of connection r, having
\* passed the gate, is answered
AddAnswered(r) ==
    /\ pc[r] \in {"lock", "ext_op"} /\ req[r].kind = "add_ext"
    /\ pc'[r] \in {"done", "rejected"}

\* C24: Add extension always answers 200 with an ExtensionResponse:
\* error = false and no message when the agent accepted the registration
\* (the extension is then registered), error = true and a message when it
\* was not registered (the registered extensions are then unchanged)
C24_AddAnswers200 ==
    [][\A r \in Requests :
         AddAnswered(r) =>
            /\ resp'[r].type = "ExtensionResponse"
            /\ resp'[r].code = 200
            /\ resp'[r].error \in BOOLEAN
            /\ IF resp'[r].error
               THEN resp'[r].message # <<>> /\ extensions' = extensions
               ELSE /\ resp'[r].message = <<>>
                    /\ extensions' = extensions \cup {req[r].ext}]_vars

\* the step in which the Remove extension request of connection r, having
\* passed the gate, is answered
RemoveAnswered(r) ==
    /\ pc[r] \in {"lock", "ext_op"} /\ req[r].kind = "remove_ext"
    /\ pc'[r] \in {"done", "rejected"}

\* C25: Remove extension always answers ExtensionResponse{error: false}
\* with 200, whether or not the name was registered; when it returns the
\* name is not registered with the agent and every other registered
\* extension is as before
C25_RemoveFrame ==
    [][\A r \in Requests :
         RemoveAnswered(r) =>
            /\ resp'[r] = [type |-> "ExtensionResponse", code |-> 200,
                           error |-> FALSE, message |-> <<>>]
            /\ req[r].ext \notin extensions'
            /\ extensions' \ {req[r].ext} = extensions \ {req[r].ext}
            /\ pc'[r] = "done"]_vars

\* C25 witness: a Remove extension request was answered and another
\* extension, registered before, is still registered
C25_Witness ==
    \E r, q \in Requests :
        /\ req[r].kind = "remove_ext" /\ pc[r] = "done"
        /\ resp[r] = ExtensionResponse(FALSE, <<>>)
        /\ req[q].kind = "add_ext" /\ pc[q] = "done" /\ ~resp[q].error
        /\ Cardinality(extensions) = 1

(***************************************************************************)
(* The routing table.                                                      *)
(***************************************************************************)
\* C26: in the routing table of build_routes the handlers of start, reply,
\* summarize, end, add extension and remove extension run only for a
\* request that passed the API-key gate (its x-api-key is the secret; any
\* other request is rejected), and the handlers of list extensions,
\* provider config and metrics answer every request, whatever its
\* x-api-key header
C26_GatedAndUngatedRoutes ==
    /\ [](\A r \in Requests : pc[r] \in HandlerPcs => req[r].header = apiKey)
    /\ [][\A r \in Requests :
            ReceiveStep(r) =>
               LET kind == req'[r].kind
                   header == req'[r].header
               IN /\ kind \in {"start", "reply", "summarize", "end", "add_ext", "remove_ext"}
                        \cup {"list_ext", "provider_config", "metrics"}
                  /\ kind \in {"start", "reply", "end", "add_ext", "remove_ext"} =>
                        IF header = apiKey
                        THEN pc'[r] \in HandlerPcs
                        ELSE pc'[r] = "rejected" /\ resp'[r].type = "rejection"
                  /\ kind = "summarize" =>
                        IF header = apiKey
                        THEN pc'[r] = "done" /\ resp'[r].type = "unspecified"
                        ELSE pc'[r] = "rejected" /\ resp'[r].type = "rejection"
                  /\ kind \in {"list_ext", "provider_config", "metrics"} =>
                        /\ pc'[r] = "done"
                        /\ resp'[r].type =
                              (CASE kind = "list_ext" -> "ExtensionsResponse"
                                 [] kind = "provider_config" -> "ProviderConfig"
                                 [] kind = "metrics" -> "unspecified")]_vars

\* C26 witness: a list-extensions request with a wrong key and a metrics
\* request without the header were both answered by their handlers
C26_Witness ==
    \E r, q \in Requests :
        /\ req[r].kind = "list_ext" /\ req[r].header = "wrong"
        /\ pc[r] = "done" /\ resp[r].type = "ExtensionsResponse"
        /\ req[q].kind = "metrics" /\ req[q].header = NoHeader
        /\ pc[q] = "done" /\ resp[q].type = "unspecified"

(***************************************************************************)
(* End session against Reply.                                              *)
(***************************************************************************)
\* a handler holds a message list it will persist under identifier s
HeldForPersist(s) ==
    \E q \in Requests : session[q] = s /\ pc[q] \in {"agent", "persist"}

\* identifier s was minted, has no transcript, and no handler is about to
\* persist one for it
Gone(s) == s < nextSid /\ s \notin DOMAIN store /\ ~HeldForPersist(s)

\* the step in which the End session of connection r answers "success"
\* for identifier s
EndSucceeds(r, s) ==
    /\ pc[r] = "end" /\ session[r] = s
    /\ pc'[r] = "done" /\ resp'[r].status = "success"

\* no request other than r is in a handler for identifier s
NoOtherInFlight(r, s) ==
    \A q \in Requests \ {r} : ~(pc[q] \in HandlerPcs /\ session[q] = s)

\* C27: when no other request for the identifier is in flight, after End
\* session answered "success" for it every later Reply and every later End
\* session for it is answered "Session not found" / 404, to the end of the
\* run: the identifier is never minted again and its transcript never
\* comes back
C27_EndedStaysNotFound ==
    [][\A s \in Sids :
         /\ \A r \in Requests :
               (EndSucceeds(r, s) /\ NoOtherInFlight(r, s)) => Gone(s)'
         /\ Gone(s) =>
               /\ Gone(s)'
               /\ nextSid' # s
               /\ \A r \in Requests :
                     ( /\ req[r].kind \in {"reply", "end"} /\ session[r] = s
                       /\ pc[r] \in HandlerPcs /\ pc'[r] = "done" )
                         => resp'[r] = [type |-> "ApiResponse", code |-> 404,
                                        message |-> "Session not found",
                                        status |-> "error"]]_vars

\* C27 witness: one connection carried, one after the other, the Start of
\* session 1, its End (answered "success") and a Reply that was answered
\* "Session not found"
C27_Witness ==
    /\ ended = {1} /\ nextSid = 2 /\ received = 3
    /\ req[1].kind = "reply" /\ pc[1] = "done"
    /\ resp[1].message = "Session not found" /\ resp[1].code = 404
    /\ \A q \in Requests \ {1} : pc[q] = "idle"

\* C28: End session takes no lock and can run between the transcript read
\* and the persist of a Reply to the same identifier; all the same, once
\* End session has answered "success" for an identifier no transcript
\* exists for it in any later state
C28_EndedHasNoTranscript ==
    /\ \A r, q \in Requests :
          ( /\ InReadModifyPersist(r)
            /\ pc[q] = "end" /\ session[q] = session[r] )
              => ENABLED EndSession(q)
    /\ \A s \in ended : s \notin DOMAIN store

(***************************************************************************)
(* The agent lock is released on every path.                               *)
(***************************************************************************)
\* C29: every handler and startup step that acquired the agent lock
\* releases it on every path, the early "Session not found" return of
\* Reply and the failure branches included: the lock is never held by an
\* operation that has finished, and, agent operations returning, every
\* request that waits for the lock gets it and is answered
C29_LockReleased ==
    /\ [](/\ \A r \in Requests : lock = r => HoldsAgent(r)
          /\ lock = BootTask => BootHoldsAgent
          /\ \A r \in Requests : HoldsAgent(r) => lock = r)
    /\ [][/\ \A r \in Requests :
               (HoldsAgent(r) /\ ~HoldsAgent(r)') => (lock = r /\ lock' = Free)
          /\ (BootHoldsAgent /\ ~BootHoldsAgent') => (lock = BootTask /\ lock' = Free)]_vars
    /\ \A r \in Requests : (pc[r] = "lock") ~> (pc[r] = "done" /\ lock # r)

\* C29 witness: a Reply was answered "Session not found" and the lock it
\* had taken is now held by the next request, which is with the agent
C29_Witness ==
    \E r, q \in Requests :
        /\ req[r].kind = "reply" /\ pc[r] = "done" /\ resp[r].code = 404
        /\ lock = q /\ pc[q] = "agent"

(***************************************************************************)
(* A reply stream that starts with an error.                               *)
(***************************************************************************)
\* the step in which Start session or Reply to session of connection r
\* answers after a reply stream whose first item is an error
AnsweredAfterErrorItem(r) ==
    /\ req[r].kind \in {"start", "reply"}
    /\ pc[r] = "persist" /\ pc'[r] = "done"
    /\ stream[r] # <<>> /\ ~Head(stream[r]).ok

\* C30: when the first item of the agent's reply stream is an error, Start
\* session and Reply to session answer "warning" with 200, not "error"
\* with 500, and the history is persisted without any agent message: the
\* stored transcript is the handler's list, which ends with the prompt
C30_ErrorItemIsWarning ==
    [][\A r \in Requests :
         AnsweredAfterErrorItem(r) =>
            /\ resp'[r].status = "warning"
            /\ resp'[r].code = 200
            /\ messages[r] # <<>>
            /\ messages[r][Len(messages[r])] = PromptMessage(req[r].prompt)
            /\ req[r].kind = "start" => Len(messages[r]) = 1
            /\ session[r] \in DOMAIN store'
            /\ store'[session[r]] = messages[r]]_vars

(***************************************************************************)
(* The session-activity registry: touch, frames, underflow (SpecSessions). *)
(***************************************************************************)
\* no more than the time-to-live has elapsed since record k was last active
WithinTtl(k) == ~(now - sessions[k].last_active > 3600)

\* C31: touch sets the record's last-activity timestamp to the current time
\* and changes nothing else, no other record's timestamp or presence; the
\* touched record is not expired until more than the time-to-live has
\* elapsed since the touch, and a cleanup sweep right after a touch keeps it
C31_TouchFrame ==
    [][/\ lastCall'.op = "touch" =>
             /\ DOMAIN sessions' = DOMAIN sessions
             /\ sessions'[lastCall'.id] =
                   [agent |-> sessions[lastCall'.id].agent, last_active |-> now]
             /\ \A k \in DOMAIN sessions \ {lastCall'.id} : sessions'[k] = sessions[k]
             /\ now' = now
       /\ (lastCall.op = "touch" /\ lastCall'.op = "cleanup") =>
             /\ lastCall.id \in DOMAIN sessions'
             /\ sessions'[lastCall.id] = sessions[lastCall.id]
       /\ (lastCall'.op = "is_expired" /\ WithinTtl(lastCall'.id)) =>
             lastCall'.result = "live"
       /\ lastCall'.op = "cleanup" =>
             \A k \in DOMAIN sessions : WithinTtl(k) => k \in DOMAIN sessions']_vars

\* C32: a record leaves the registry only in a cleanup sweep: the clock, touch,
\* insert and is_expired keep the set of records, and a step of a request
\* handler (start, reply, end, extensions, provider configuration) leaves the
\* registry, its clock and its last call exactly as they were
C32_OnlyCleanupRemoves ==
    [][/\ (\E k \in DOMAIN sessions : k \notin DOMAIN sessions') =>
             (lastCall'.op = "cleanup" /\ serverVars' = serverVars)
       /\ (serverVars' = serverVars /\ lastCall'.op \in {"clock", "touch", "is_expired"}) =>
             DOMAIN sessions' = DOMAIN sessions
       /\ (serverVars' = serverVars /\ lastCall'.op = "clock") => sessions' = sessions
       /\ serverVars' # serverVars =>
             (sessions' = sessions /\ lastCall' = lastCall /\ now' = now)]_vars

\* a handler has answered the last request and the clock has passed the
\* time-to-live of a record that is still cached, with no sweep since
C32_Witness ==
    /\ received = NReq
    /\ \E r \in Requests : pc[r] = "done" /\ req[r].kind \in {"start", "reply", "end"}
    /\ lastCall.op = "clock"
    /\ \E k \in DOMAIN sessions :
          now >= sessions[k].last_active /\ now - sessions[k].last_active > SESSION_TIMEOUT_SECS

(***************************************************************************)
(* List extensions against Add and Remove extension (SpecRoutes).          *)
(***************************************************************************)
\* the step in which connection r's List extensions request is answered by
\* its handler
ListAnswered(r) ==
    /\ pc'[r] = "done" /\ req'[r].kind = "list_ext"
    /\ received' = received + 1

\* C33: whatever was added to or removed from the agent, at startup or by
\* requests, List extensions answers what the separately held manager lists
\* (or that listing failed), and the list it answered stays the answer
C33_ListIndependent ==
    /\ [](\A r \in Requests :
            (pc[r] = "done" /\ req[r].kind = "list_ext") =>
                resp[r].extensions \in {ManagerExtensions, <<"Failed to list extensions">>})
    /\ [][\A r \in Requests :
            ListAnswered(r) =>
               /\ resp'[r].extensions \in {ManagerExtensions, <<"Failed to list extensions">>}
               /\ extensions' = extensions]_vars

\* an extension added by a request is registered with the agent and a List
\* extensions request was answered with the manager's empty list
C33_Witness ==
    /\ extensions # {}
    /\ \E q \in Requests :
          /\ req[q].kind = "add_ext" /\ pc[q] = "done"
          /\ resp[q].type = "ExtensionResponse" /\ ~resp[q].error
    /\ \E r \in Requests :
          /\ req[r].kind = "list_ext" /\ pc[r] = "done"
          /\ resp[r] = ExtensionsResponse(<<>>)

(***************************************************************************)
(* Provider initialization that fails half way (SpecSettings).             *)
(***************************************************************************)
\* initialization ended on a missing required key or on provider construction
FailedOnKeyOrCreate(err) ==
    err \in {RequiredKeyError(KeyName(i)) : i \in 1..MaxKeys} \cup {CreateError}

\* C34: GOOSE_PROVIDER and GOOSE_MODEL are in the store before the keys are
\* visited; when initialization then fails on a missing required key or on
\* provider construction, the agent's provider is unchanged, and the store
\* keeps the resolved names and every key value written before the failure
C34_NotAtomic ==
    /\ [](bootPc = "keys" =>
            /\ provider = NoProvider
            /\ StoredOr("GOOSE_PROVIDER") = Layered("GOOSE_API_PROVIDER", "provider", "openai")
            /\ StoredOr("GOOSE_MODEL") = Layered("GOOSE_API_MODEL", "model", "gpt-4o"))
    /\ []((bootPc = "exited" /\ FailedOnKeyOrCreate(bootError)) =>
            /\ provider = NoProvider
            /\ StoredOr("GOOSE_PROVIDER") = Layered("GOOSE_API_PROVIDER", "provider", "openai")
            /\ StoredOr("GOOSE_MODEL") = Layered("GOOSE_API_MODEL", "model", "gpt-4o"))
    /\ [][/\ (bootPc = "keys" /\ keysPending # <<>> /\ Head(keysPending).present
                /\ keysPending' = Tail(keysPending) /\ bootPc' = "keys") =>
                  config'[Head(keysPending).name] = KeyValue(Head(keysPending).name)
          /\ (bootPc = "keys" /\ bootPc' = "exited" /\ FailedOnKeyOrCreate(bootError')) =>
                  (config' = config /\ provider' = provider)
          /\ bootPc \in {"keys", "exited"} =>
                  \A n \in DOMAIN config : n \in DOMAIN config' /\ config'[n] = config[n]]_vars

\* initialization wrote the names and the first key's value, then failed on
\* the second key, required and not set: no provider, but the store is changed
C34_Witness ==
    /\ bootPc = "exited"
    /\ bootError = RequiredKeyError("K2")
    /\ provider = NoProvider
    /\ DOMAIN config = {"GOOSE_PROVIDER", "GOOSE_MODEL", "K1"}
    /\ config["K1"] = KeyValue("K1")

(***************************************************************************)
(* An extensions table with an entry that does not deserialize.            *)
(***************************************************************************)
\* the names of the entries that precede the i-th entry of the table
EntriesBefore(i) == {EntryName(j) : j \in 1..(i - 1)}

\* extension bootstrap has ended on entry n, which did not deserialize, and
\* no request has been received yet
StoppedAt(n) ==
    /\ bootError = DeserializeError(n)
    /\ bootPc \in {"selfcheck", "selfcheck_locked", "serving"}
    /\ received = 0

\* C35: an entry that fails to deserialize ends the loop over the table: the
\* entries after it are dropped unvisited and never registered, the entries
\* registered before it stay registered, and startup goes on to serving
C35_MalformedStopsLaterEntries ==
    /\ [](\A i \in 1..MaxExt :
            StoppedAt(EntryName(i)) =>
               /\ extPending = <<>>
               /\ extensions \subseteq EntriesBefore(i))
    /\ [](bootPc \in {"selfcheck", "selfcheck_locked"} => ENABLED Boot)
    /\ [][/\ (bootPc = "extensions" /\ extPending # <<>>
                /\ Head(extPending).state = "malformed") =>
                  /\ extPending' = <<>>
                  /\ extensions' = extensions
                  /\ bootError' = DeserializeError(Head(extPending).name)
                  /\ bootPc' = "selfcheck"
          /\ bootPc \in {"selfcheck", "selfcheck_locked"} =>
                  /\ extensions' = extensions
                  /\ bootPc' \in {"selfcheck", "selfcheck_locked", "serving"}]_vars

\* the server serves with e1 registered; the table's second entry did not
\* deserialize and nothing after the first entry was registered
C35_Witness ==
    /\ bootPc = "serving"
    /\ bootError = DeserializeError("e2")
    /\ extensions = {"e1"}
    /\ received = 0

(***************************************************************************)
(* The Windows pre-step of Add extension (SpecWindows).                    *)
(***************************************************************************)
\* the step in which the pre-step ends the Add extension request of
\* connection r: the request is answered before it asked for the agent lock
PreStepEnds(r) ==
    /\ pc[r] = "lock" /\ req[r].kind = "add_ext"
    /\ pc'[r] \in {"done", "rejected"}

\* C36: every failure of the Windows pre-step of Add extension is answered
\* with ExtensionResponse{error: true, message}, and the extension is not
\* registered with the agent and the agent lock is not taken
C36_PreStepFailureIsErrorResponse ==
    [][\A r \in Requests :
         PreStepEnds(r) =>
            /\ resp'[r].type = "ExtensionResponse"
            /\ resp'[r].error = TRUE
            /\ resp'[r].message # <<>>
            /\ extensions' = extensions
            /\ lock' = lock /\ lock # r]_vars

(***************************************************************************)
(* The gate of the entry point and a request without the header (SpecMain).*)
(***************************************************************************)
\* C37: in the entry point's composition a request to a gated route without
\* the x-api-key header is answered 401 UNAUTHORIZED, the status a request
\* with a wrong key is answered with
C37_MissingHeaderIs401 ==
    \A r \in Requests :
        (composition = "main" /\ pc[r] = "rejected" /\ req[r].header = NoHeader) =>
            /\ resp[r].code = 401
            /\ resp[r].code = handle_rejection(with_api_key("main", "wrong", apiKey))

(***************************************************************************)
(* is_expired when the clock was set back (SpecSessions).                  *)
(***************************************************************************)
\* the clock reads earlier than the last activity of record k
ClockBehind(k) == now < sessions[k].last_active

\* C38: when the current time is earlier than a record's last-activity
\* timestamp the subtraction of is_expired does not wrap around: the record
\* is reported not expired, and a cleanup sweep returns and keeps it
C38_NoWrapWhenClockBehind ==
    [][/\ (lastCall'.op = "is_expired" /\ ClockBehind(lastCall'.id)) =>
             lastCall'.result = "live"
       /\ (lastCall'.op = "cleanup" /\ \E k \in DOMAIN sessions : ClockBehind(k)) =>
             /\ lastCall'.result = "returned"
             /\ \A k \in DOMAIN sessions : ClockBehind(k) => k \in DOMAIN sessions']_vars

====
